---- MODULE Spec2Model ----
(***************************************************************************)
(* A model of the DefiDazzleAgent portfolio optimiser core:                *)
(*   strategies/YieldScanner.py      the per-protocol scans                *)
(*   defitrader.py                   the strategies and the trading agent  *)
(*   calculations/price_calculator.py  price resolution over pairs         *)
(*   calculations/apr_calculator.py    the rate functions                  *)
(*   calculations/risk_calculator.py   the risk functions                  *)
(*   calculations/data_fetcher.py      the lending rates, protocol metrics *)
(*                                                                         *)
(* The specifications share the variables; each leaves the variables of    *)
(* the others at their idle values:                                        *)
(*   Spec          one protocol scan (_scan_<protocol> and its pool tasks) *)
(*   SpecAgent     the strategies, the filter, the ranking, the agent      *)
(*   SpecPrice     PriceCalculator over a chain of three tokens            *)
(*   SpecPair      one pair lookup of PriceCalculator, in both directions  *)
(*   SpecRate      APRCalculator's rate functions on drawn inputs          *)
(*   SpecLending   the two lending-rate functions on one market contract   *)
(*   SpecSteps     RiskCalculator's TVL and age step functions             *)
(*   SpecComposite RiskCalculator.calculate_composite_risk_score           *)
(*   SpecScore     the risk scoring of the four pool coroutines            *)
(*   SpecCache     YieldScanner.get_token_price and its price_cache        *)
(*   SpecHealth    RiskCalculator.calculate_protocol_health_score          *)
(*   SpecDrawdown  RiskCalculator._calculate_max_drawdown                  *)
(*                                                                         *)
(* Numbers.  The code computes prices and rates in decimal.Decimal and     *)
(* float.  The model computes them as exact fractions n/d * 10^e (Num      *)
(* below), so that 10^18 and 10512000 fit TLC's integers; the rounding of  *)
(* Decimal (28 significant digits) and of float (53 bits) is not modelled, *)
(* and no formula below depends on it.                                     *)
(***************************************************************************)
EXTENDS Integers, Sequences, FiniteSets, TLC

VARIABLES
    \* ---- Spec: one protocol scan
    proto,          \* the protocol whose _scan_<proto> runs
    scanPc,         \* "start" | "gather" | "done"
    enumerated,     \* "pending" | "raise" | "ok": how the enumeration ended
    poolLength,     \* the number of pools enumerated
    tasks,          \* pid -> [step, raised, ret]: the pool-detail coroutines
    results,        \* what asyncio.gather returned: a sequence of <<pid, value>>
    opportunities,  \* the list _scan_<proto> returns
    \* ---- SpecAgent: strategies, filter, ranking
    formatted,      \* what format_for_trading_agent gives: [kind, list]
    rwaBehaviour,   \* what RWAStrategy.scan_opportunities does: [kind, list]
    agentPc,        \* "rwa" | "yield_farming" | "sort" | "done"
    yieldOut,       \* what YieldStrategy.scan_opportunities returned: [kind, list]
    allOpportunities, \* all_opportunities of scan_all_opportunities
    agentOut,       \* what scan_all_opportunities did: [kind, list]
    \* ---- SpecPrice: the chain and the last price lookup
    chain,          \* the factory's pairs and the tokens' decimals
    priceCall,      \* the last call: <<"none">>, <<"pair", a, b>>, <<"token", t>>
    priceRet,       \* its outcome
    priceRev,       \* the outcome of the pair lookup with the two tokens swapped
    \* ---- SpecCache: YieldScanner.get_token_price and its price_cache
    price_cache,    \* the scanner's price_cache attribute: [set, entries]
    now,            \* the time, in seconds since the scanner was made
    storedAt,       \* token -> the time its cache entry was written
    \* ---- SpecRate: the rate functions
    rateIn,         \* the inputs drawn
    rateOut,        \* function name -> "pending" | the value returned
    \* ---- SpecSteps, SpecComposite, SpecScore: the risk functions
    riskIn,         \* the inputs drawn
    riskOut         \* function name -> what the call gave

scanVars  == <<proto, scanPc, enumerated, poolLength, tasks, results, opportunities>>
agentVars == <<formatted, rwaBehaviour, agentPc, yieldOut, allOpportunities, agentOut>>
priceVars == <<chain, priceCall, priceRet, priceRev, price_cache, now, storedAt>>
rateVars  == <<rateIn, rateOut>>
riskVars  == <<riskIn, riskOut>>
vars      == <<scanVars, agentVars, priceVars, rateVars, riskVars>>

(***************************************************************************)
(* Numbers: n/d * 10^e with n >= 0 and d > 0.  Norm keeps n and d small:   *)
(* it cancels their common divisor and moves their factors of ten into e.  *)
(* Two numbers are compared by NumEq, never by =.                          *)
(***************************************************************************)
RECURSIVE GCD(_, _)
GCD(a, b) == IF b = 0 THEN a ELSE GCD(b, a % b)

RECURSIVE StripTens(_)
StripTens(x) ==
    IF x.n = 0 THEN [n |-> 0, d |-> 1, e |-> 0]
    ELSE IF x.n % 10 = 0 THEN StripTens([x EXCEPT !.n = @ \div 10, !.e = @ + 1])
    ELSE IF x.d % 10 = 0 THEN StripTens([x EXCEPT !.d = @ \div 10, !.e = @ - 1])
    ELSE x

Norm(x) ==
    LET g == GCD(x.n, x.d)
    IN  StripTens([n |-> x.n \div g, d |-> x.d \div g, e |-> x.e])

Num(n, d, e) == Norm([n |-> n, d |-> d, e |-> e])
Zero == Num(0, 1, 0)
One == Num(1, 1, 0)
Hundred == Num(100, 1, 0)
Pow10(k) == Num(1, 1, k)

IsZero(x) == x.n = 0
Times(x, y) == Norm([n |-> x.n * y.n, d |-> x.d * y.d, e |-> x.e + y.e])
\* x / y for y # 0
Over(x, y) == Norm([n |-> x.n * y.d, d |-> x.d * y.n, e |-> x.e - y.e])

\* x + y and x - y (for x >= y), on the smaller of the two exponents
Plus(x, y) ==
    IF x.n = 0 THEN y
    ELSE IF y.n = 0 THEN x
    ELSE LET m == IF x.e < y.e THEN x.e ELSE y.e
         IN  Norm([n |-> x.n * y.d * 10^(x.e - m) + y.n * x.d * 10^(y.e - m),
                   d |-> x.d * y.d, e |-> m])

Minus(x, y) ==
    IF y.n = 0 THEN x
    ELSE LET m == IF x.e < y.e THEN x.e ELSE y.e
         IN  Norm([n |-> x.n * y.d * 10^(x.e - m) - y.n * x.d * 10^(y.e - m),
                   d |-> x.d * y.d, e |-> m])

\* n without its factors p, and the number of factors p of n, for n > 0
RECURSIVE WithoutFactor(_, _)
WithoutFactor(n, p) == IF n % p = 0 THEN WithoutFactor(n \div p, p) ELSE n

RECURSIVE FactorCount(_, _)
FactorCount(n, p) == IF n % p = 0 THEN 1 + FactorCount(n \div p, p) ELSE 0

\* x # 0 as n/d * 2^two * 5^five with n, d and 10 pairwise coprime: the
\* one such form of its value
Canonical(x) ==
    [n |-> WithoutFactor(WithoutFactor(x.n, 2), 5),
     d |-> WithoutFactor(WithoutFactor(x.d, 2), 5),
     two |-> x.e + FactorCount(x.n, 2) - FactorCount(x.d, 2),
     five |-> x.e + FactorCount(x.n, 5) - FactorCount(x.d, 5)]

\* b / p^k rounded down, and a / p^k rounded up, for a, b >= 0
RECURSIVE FloorDivBy(_, _, _)
FloorDivBy(b, p, k) ==
    IF k = 0 \/ b = 0 THEN b ELSE FloorDivBy(b \div p, p, k - 1)

RECURSIVE CeilDivBy(_, _, _)
CeilDivBy(a, p, k) ==
    IF k = 0 \/ a <= 1 THEN a ELSE CeilDivBy((a + p - 1) \div p, p, k - 1)

\* x <= y on the canonical forms: the powers of 2 and 5 by which the two
\* differ are divided out of the other side where both are on one side
LessEq(x, y) ==
    IF x.n = 0 THEN TRUE
    ELSE IF y.n = 0 THEN FALSE
    ELSE LET cx == Canonical(x)
             cy == Canonical(y)
             two == cx.two - cy.two
             five == cx.five - cy.five
             a == cx.n * cy.d
             b == cy.n * cx.d
         IN  IF two >= 0 /\ five >= 0
             THEN a <= FloorDivBy(FloorDivBy(b, 2, two), 5, five)
             ELSE IF two <= 0 /\ five <= 0
             THEN CeilDivBy(CeilDivBy(a, 2, 0 - two), 5, 0 - five) <= b
             ELSE IF two > 0
             THEN a * 2^two <= b * 5^(0 - five)
             ELSE a * 5^five <= b * 2^(0 - two)

\* x = y: both 0, or the same canonical form
NumEq(x, y) ==
    IF x.n = 0 \/ y.n = 0 THEN x.n = y.n
    ELSE Canonical(x) = Canonical(y)

\* The outcome of a call that gives a number: it has not been made, it
\* returned None, it returned a number, or it raised.
NotCalled == [kind |-> "pending", v |-> Zero]
NoneValue == [kind |-> "None", v |-> Zero]
Value(x) == [kind |-> "value", v |-> x]
RaisedError == [kind |-> "raised", v |-> Zero]

\* The outcome of a call: it is pending, it raised, or it returned a list.
Pending == [kind |-> "pending", list |-> <<>>]
Raised == [kind |-> "raised", list |-> <<>>]
Returned(l) == [kind |-> "returned", list |-> l]

(***************************************************************************)
(* Idle values: what a specification gives the variables it does not use.  *)
(***************************************************************************)
ScanIdle ==
    /\ proto = "none" /\ scanPc = "idle" /\ enumerated = "pending"
    /\ poolLength = 0
    /\ tasks = <<>> /\ results = <<>> /\ opportunities = <<>>

AgentIdle ==
    /\ formatted = Pending /\ rwaBehaviour = Pending /\ agentPc = "idle"
    /\ yieldOut = Pending /\ allOpportunities = <<>> /\ agentOut = Pending

PriceIdle ==
    /\ chain = <<>> /\ priceCall = <<"none">>
    /\ priceRet = NotCalled /\ priceRev = NotCalled
    /\ price_cache = <<>> /\ now = 0 /\ storedAt = <<>>

RateIdle ==
    /\ rateIn = <<>> /\ rateOut = <<>>

RiskIdle ==
    /\ riskIn = <<>> /\ riskOut = <<>>

(***************************************************************************)
(* Sequence helpers.                                                       *)
(***************************************************************************)
Range(s) == { s[i] : i \in 1..Len(s) }

Count(x, s) == Cardinality({ i \in 1..Len(s) : s[i] = x })

IsPermutation(s, t) ==
    /\ Len(s) = Len(t)
    /\ \A x \in Range(s) \cup Range(t) : Count(x, s) = Count(x, t)

SeqsUpTo(S, n) == UNION { [1..k -> S] : k \in 0..n }

(***************************************************************************)
(* Spec: one protocol scan.                                                *)
(*                                                                         *)
(* _scan_<proto> enumerates the protocol's pools, creates one coroutine    *)
(* _get_<proto>_pool_info(pid) per pool, gathers them with                 *)
(* return_exceptions=True and keeps every result that is not None.  A      *)
(* pool coroutine runs its steps in order inside one try block; a step     *)
(* that raises ends it in the except branch, which returns None.           *)
(***************************************************************************)
MaxPools == 2

Protocols == {"pancakeswap", "venus", "alpaca", "biswap"}

\* The steps of a pool coroutine, in the order of the code.  A step holds at
\* most one call the coroutine waits for: the two price histories of a pair
\* are fetched one after the other.
Steps(p) ==
    CASE p = "pancakeswap" ->
           <<"poolInfo", "pool_tokens", "token0_price", "token1_price",
             "getReserves", "calculate_pancake_apr", "token0_history",
             "token1_history", "il_risk", "creation_block", "getBlock",
             "protocol_metrics",
             "risk_score", "pool_metrics_volume">>
      [] p = "venus" ->
           <<"underlying", "underlying_price", "lending_borrow_rates",
             "market_totals", "price_history", "volatility",
             "protocol_metrics", "creation_block", "risk_score">>
      [] p = "alpaca" ->
           <<"poolInfo", "vault_token", "token_price", "totalToken",
             "base_apy", "alpaca_address", "reward_apy", "price_history",
             "volatility", "protocol_metrics", "creation_block",
             "risk_score">>
      [] p = "biswap" ->
           <<"poolInfo", "pool_tokens", "token0_price", "token1_price",
             "getReserves", "calculate_biswap_apr", "token0_history",
             "token1_history", "il_risk", "volatility", "protocol_metrics",
             "creation_block", "risk_score">>

\* Steps that raise whatever the collaborators return:
\*   pancakeswap: await get_pool_metrics(..)['volume_usd'] subscripts the
\*                coroutine object before awaiting it (TypeError);
\*   venus:       get_lending_borrow_rates awaits the value that the
\*                synchronous contract call returned (TypeError);
\*   alpaca:      self.ADDRESSES['ALPACA'] is no key of ADDRESSES (KeyError).
AlwaysRaises(p, s) ==
    \/ p = "pancakeswap" /\ s = "pool_metrics_volume"
    \/ p = "venus" /\ s = "lending_borrow_rates"
    \/ p = "alpaca" /\ s = "alpaca_address"

\* Steps that call nothing outside the process: they compute on the values the
\* earlier steps fetched.  Every other step makes an external call (a contract
\* call, an HTTP request, a price lookup), which can fail.
LocalSteps ==
    {"il_risk", "volatility", "risk_score", "alpaca_address",
     "pool_metrics_volume"}

ExternalStep(p, s) == s \notin LocalSteps

\* Steps that can raise in the coroutine's own code although every external
\* call before them returned: the steps of AlwaysRaises, and
\* calculate_impermanent_loss_risk, which divides the second history by the
\* first and raises on a price of 0, on an empty history and on histories of
\* different lengths.
RaisesLocally(p, s) == AlwaysRaises(p, s) \/ s = "il_risk"

\* The values a pool coroutine can give gather: None, a record, or (were an
\* exception to leave the coroutine) the exception object.
None == [kind |-> "None"]
NotReturned == [kind |-> "pending"]
PoolRecord(p, pid) == [kind |-> "record", protocol |-> p, pid |-> pid]
ExceptionObject(pid) == [kind |-> "exception", pid |-> pid]

\* What the pool coroutine returns: the try block's record, or None from the
\* except branch when a step raised.
TaskReturnPropagates(p, pid, raised) ==
    IF raised THEN ExceptionObject(pid) ELSE PoolRecord(p, pid)

TaskReturn(p, pid, raised) ==
    IF raised THEN None ELSE PoolRecord(p, pid)

\* opportunities.extend([r for r in results if r is not None])
KeepResult(r) == r # None

RECURSIVE FilterResults(_)
FilterResults(rs) ==
    IF rs = <<>> THEN <<>>
    ELSE (IF KeepResult(Head(rs)) THEN <<Head(rs)>> ELSE <<>>)
         \o FilterResults(Tail(rs))

Pids == 0..(MaxPools - 1)

\* A step of the scan leaves the variables of the other specifications alone.
ScanOnly == UNCHANGED <<agentVars, priceVars, rateVars, riskVars>>

ScanInit ==
    /\ proto \in Protocols
    /\ scanPc = "start"
    /\ enumerated = "pending"
    /\ poolLength = 0
    /\ tasks = <<>>
    /\ results = <<>>
    /\ opportunities = <<>>

\* poolLength().call() / getAllMarkets().call() raises: the except branch of
\* _scan_<proto> logs and the empty list is returned.
ScanEnumerateRaises ==
    /\ scanPc = "start"
    /\ enumerated' = "raise"
    /\ scanPc' = "done"
    /\ UNCHANGED <<proto, poolLength, tasks, results, opportunities>>
    /\ ScanOnly

\* The enumeration returns n pools: one coroutine per pid in range(n).
ScanEnumerate ==
    /\ scanPc = "start"
    /\ \E n \in 0..MaxPools :
         /\ poolLength' = n
         /\ tasks' = [pid \in 0..(n - 1) |->
                        [step |-> 1, raised |-> FALSE, external |-> FALSE,
                         ret |-> NotReturned]]
    /\ enumerated' = "ok"
    /\ scanPc' = "gather"
    /\ UNCHANGED <<proto, results, opportunities>>
    /\ ScanOnly

\* One step of pool pid's coroutine succeeds; after the last step the record
\* is returned.
TaskStepOk(pid) ==
    /\ scanPc = "gather"
    /\ pid \in DOMAIN tasks
    /\ tasks[pid].ret = NotReturned
    /\ ~AlwaysRaises(proto, Steps(proto)[tasks[pid].step])
    /\ tasks' = [tasks EXCEPT ![pid] =
                   IF @.step = Len(Steps(proto))
                   THEN [@ EXCEPT !.ret = TaskReturn(proto, pid, FALSE)]
                   ELSE [@ EXCEPT !.step = @ + 1]]
    /\ UNCHANGED <<proto, scanPc, enumerated, poolLength, results, opportunities>>
    /\ ScanOnly

\* The external call of a step of pool pid's coroutine fails (an RPC error, a
\* failed request, no price path): the except branch returns None.  The
\* contract call of get_lending_borrow_rates can fail like any other, before
\* its value is awaited.
TaskStepRaisesExternal(pid) ==
    /\ scanPc = "gather"
    /\ pid \in DOMAIN tasks
    /\ tasks[pid].ret = NotReturned
    /\ ExternalStep(proto, Steps(proto)[tasks[pid].step])
    /\ tasks' = [tasks EXCEPT ![pid] =
                   [@ EXCEPT !.raised = TRUE,
                             !.external = TRUE,
                             !.ret = TaskReturn(proto, pid, TRUE)]]
    /\ UNCHANGED <<proto, scanPc, enumerated, poolLength, results, opportunities>>
    /\ ScanOnly

\* A step of pool pid's coroutine raises in the coroutine's own code, every
\* external call so far having returned: the except branch returns None.
TaskStepRaisesLocal(pid) ==
    /\ scanPc = "gather"
    /\ pid \in DOMAIN tasks
    /\ tasks[pid].ret = NotReturned
    /\ RaisesLocally(proto, Steps(proto)[tasks[pid].step])
    /\ tasks' = [tasks EXCEPT ![pid] =
                   [@ EXCEPT !.raised = TRUE,
                             !.ret = TaskReturn(proto, pid, TRUE)]]
    /\ UNCHANGED <<proto, scanPc, enumerated, poolLength, results, opportunities>>
    /\ ScanOnly

\* Every coroutine has returned: gather gives the results in pid order, the
\* scan keeps those that are not None and returns.
ScanGather ==
    /\ scanPc = "gather"
    /\ \A pid \in DOMAIN tasks : tasks[pid].ret # NotReturned
    /\ results' = [i \in 1..poolLength |-> tasks[i - 1].ret]
    /\ opportunities' = FilterResults(results')
    /\ scanPc' = "done"
    /\ UNCHANGED <<proto, enumerated, poolLength, tasks>>
    /\ ScanOnly

Next ==
    \/ ScanEnumerateRaises
    \/ ScanEnumerate
    \/ \E pid \in Pids : TaskStepOk(pid)
    \/ \E pid \in Pids : TaskStepRaisesExternal(pid)
    \/ \E pid \in Pids : TaskStepRaisesLocal(pid)
    \/ ScanGather

Init == ScanInit /\ AgentIdle /\ PriceIdle /\ RateIdle /\ RiskIdle

Spec == Init /\ [][Next]_vars

(***************************************************************************)
(* C1.  In a protocol scan the pool-detail fetches are independent: when   *)
(* the fetches of any subset of the enumerated pools raise, at any step,   *)
(* the scan still completes (it is never stuck before it returns), its     *)
(* result holds exactly one record for every pool whose own fetch did not  *)
(* raise, and it holds nothing for a pool whose fetch raised.              *)
(***************************************************************************)
C1_PoolFailuresAreIsolated ==
    /\ scanPc \in {"start", "gather"} => ENABLED Next
    /\ (scanPc = "done" /\ enumerated = "ok") =>
         /\ \A pid \in DOMAIN tasks :
              IF tasks[pid].raised
              THEN \A i \in 1..Len(opportunities) :
                     /\ opportunities[i].kind = "record"
                     /\ opportunities[i].pid # pid
              ELSE Count(PoolRecord(proto, pid), opportunities) = 1
         /\ Len(opportunities)
              = Cardinality({ pid \in DOMAIN tasks : ~tasks[pid].raised })

\* Two pools, one fetch raised after its first step, the other ran to its
\* end: the scan returned the one record.
C1_Witness ==
    /\ scanPc = "done"
    /\ poolLength = 2
    /\ \E p, q \in DOMAIN tasks :
         /\ tasks[p].raised /\ tasks[p].step > 1
         /\ ~tasks[q].raised
         /\ opportunities = <<PoolRecord(proto, q)>>

(***************************************************************************)
(* SpecAgent: the strategies, the filter, the ranking and the agent.       *)
(*                                                                         *)
(* An opportunity is the record YieldStrategy._filter_opportunities and    *)
(* the two sorts read.  Scores are in hundredths (15 is 0.15), the TVL is  *)
(* in USD.  YieldScanner.format_for_trading_agent, which                   *)
(* YieldStrategy.scan_opportunities awaits, is not part of the sources:    *)
(* what it gives is drawn in AgentInit (it raises, or it returns a list of *)
(* opportunities that carry every field the filter reads).                 *)
(*                                                                         *)
(* EnhancedTradingAgent.strategies names four strategies in this order:    *)
(* meme_tokens, rwa, yield_farming, airdrops.  The classes of the first    *)
(* and the last are commented out; the model scans the two that exist.     *)
(***************************************************************************)
MaxOpps == 3
MaxRwa == 1

MinExpectedRoi == 15
MaxRiskScore == 65
MinTvl == 500000
MinProtocolScore == 75
MinLiquidityScore == 60

Opp(roi, risk, tvl, ps, ls, addr) ==
    [expected_roi |-> roi, risk_score |-> risk, tvl |-> tvl,
     protocol_score |-> ps, liquidity_score |-> ls, address |-> addr]

\* Opportunities on and around every threshold: four that pass every filter
\* (with ties in expected_roi and in risk_score), and for each of the five
\* filters one that fails it alone, by the least amount.
OppUniverse ==
    { Opp(20, 50, MinTvl, MinProtocolScore, MinLiquidityScore, 1),
      Opp(MinExpectedRoi, 50, MinTvl, MinProtocolScore, MinLiquidityScore, 1),
      Opp(MinExpectedRoi, MaxRiskScore, MinTvl, MinProtocolScore, MinLiquidityScore, 1),
      Opp(MinExpectedRoi, MaxRiskScore, MinTvl, MinProtocolScore, MinLiquidityScore, 2),
      Opp(MinExpectedRoi - 1, MaxRiskScore, MinTvl, MinProtocolScore, MinLiquidityScore, 1),
      Opp(MinExpectedRoi, MaxRiskScore + 1, MinTvl, MinProtocolScore, MinLiquidityScore, 1),
      Opp(MinExpectedRoi, MaxRiskScore, MinTvl - 1, MinProtocolScore, MinLiquidityScore, 1),
      Opp(MinExpectedRoi, MaxRiskScore, MinTvl, MinProtocolScore - 1, MinLiquidityScore, 1),
      Opp(MinExpectedRoi, MaxRiskScore, MinTvl, MinProtocolScore, MinLiquidityScore - 1, 1) }

\* What an RWA marketplace analyzer may give: the agent ranks these unfiltered.
RwaUniverse ==
    { Opp(MinExpectedRoi - 1, MaxRiskScore + 1, MinTvl, MinProtocolScore, MinLiquidityScore, 3),
      Opp(20, 50, MinTvl, MinProtocolScore, MinLiquidityScore, 3) }

\* YieldStrategy._filter_opportunities: the five skips, in the code's order.
KeepsOpportunityRoiExclusive(opp) ==
    /\ ~(opp.expected_roi <= MinExpectedRoi)
    /\ ~(opp.risk_score > MaxRiskScore)
    /\ ~(opp.tvl < MinTvl)
    /\ ~(opp.protocol_score < MinProtocolScore)
    /\ ~(opp.liquidity_score < MinLiquidityScore)

KeepsOpportunity(opp) ==
    /\ ~(opp.expected_roi < MinExpectedRoi)
    /\ ~(opp.risk_score > MaxRiskScore)
    /\ ~(opp.tvl < MinTvl)
    /\ ~(opp.protocol_score < MinProtocolScore)
    /\ ~(opp.liquidity_score < MinLiquidityScore)

RECURSIVE FilterOpportunities(_)
FilterOpportunities(opps) ==
    IF opps = <<>> THEN <<>>
    ELSE (IF KeepsOpportunity(Head(opps)) THEN <<Head(opps)>> ELSE <<>>)
         \o FilterOpportunities(Tail(opps))

\* sorted(l, key=lambda x: x['expected_roi'], reverse=True): Python's sort is
\* stable, also with reverse=True, so the result is the one order in which
\* the keys descend and equal keys keep their input order.  InsertByRoi puts
\* x behind every element whose key is at least x's.
RECURSIVE InsertByRoi(_, _)
InsertByRoi(x, s) ==
    IF s = <<>> THEN <<x>>
    ELSE IF Head(s).expected_roi >= x.expected_roi
         THEN <<Head(s)>> \o InsertByRoi(x, Tail(s))
         ELSE <<x>> \o s

RECURSIVE InsertByRoiAscending(_, _)
InsertByRoiAscending(x, s) ==
    IF s = <<>> THEN <<x>>
    ELSE IF Head(s).expected_roi <= x.expected_roi
         THEN <<Head(s)>> \o InsertByRoiAscending(x, Tail(s))
         ELSE <<x>> \o s

RECURSIVE SortedAscending(_)
SortedAscending(l) ==
    IF l = <<>> THEN <<>>
    ELSE InsertByRoiAscending(l[Len(l)], SortedAscending(SubSeq(l, 1, Len(l) - 1)))

RECURSIVE SortedByRoi(_)
SortedByRoi(l) ==
    IF l = <<>> THEN <<>>
    ELSE InsertByRoi(l[Len(l)], SortedByRoi(SubSeq(l, 1, Len(l) - 1)))

\* YieldStrategy.scan_opportunities: format, filter, sort; any exception is
\* logged and the empty list returned.
ScanOpportunities(fmt) ==
    IF fmt.kind = "raised" THEN Returned(<<>>)
    ELSE Returned(SortedByRoi(FilterOpportunities(fmt.list)))

AgentOnly == UNCHANGED <<scanVars, priceVars, rateVars, riskVars>>

\* YieldScanner.format_for_trading_agent: it raises, or it returns a list of
\* opportunities.
FormatForTradingAgent ==
    {Raised} \cup { Returned(l) : l \in SeqsUpTo(OppUniverse, MaxOpps) }

\* RWAStrategy.scan_opportunities: it extends its list with what each
\* marketplace analyzer gives, and raises what an analyzer raises.
RwaScanOpportunities ==
    {Raised} \cup { Returned(l) : l \in SeqsUpTo(RwaUniverse, MaxRwa) }

AgentInit ==
    /\ formatted \in FormatForTradingAgent
    /\ rwaBehaviour \in RwaScanOpportunities
    /\ agentPc = "rwa"
    /\ yieldOut = Pending
    /\ allOpportunities = <<>>
    /\ agentOut = Pending

\* scan_all_opportunities awaits RWAStrategy.scan_opportunities, which has no
\* try block: what an analyzer raises leaves scan_all_opportunities too.
AgentRwaRaises ==
    /\ agentPc = "rwa"
    /\ rwaBehaviour.kind = "raised"
    /\ agentOut' = Raised
    /\ agentPc' = "done"
    /\ UNCHANGED <<formatted, rwaBehaviour, yieldOut, allOpportunities>>
    /\ AgentOnly

AgentRwaReturns ==
    /\ agentPc = "rwa"
    /\ rwaBehaviour.kind = "returned"
    /\ allOpportunities' = allOpportunities \o rwaBehaviour.list
    /\ agentPc' = "yield_farming"
    /\ UNCHANGED <<formatted, rwaBehaviour, yieldOut, agentOut>>
    /\ AgentOnly

AgentYieldReturns ==
    /\ agentPc = "yield_farming"
    /\ yieldOut' = ScanOpportunities(formatted)
    /\ allOpportunities' = allOpportunities \o yieldOut'.list
    /\ agentPc' = "sort"
    /\ UNCHANGED <<formatted, rwaBehaviour, agentOut>>
    /\ AgentOnly

\* return sorted(all_opportunities, key=..., reverse=True)
AgentReturns ==
    /\ agentPc = "sort"
    /\ agentOut' = Returned(SortedByRoi(allOpportunities))
    /\ agentPc' = "done"
    /\ UNCHANGED <<formatted, rwaBehaviour, yieldOut, allOpportunities>>
    /\ AgentOnly

InitAgent == ScanIdle /\ AgentInit /\ PriceIdle /\ RateIdle /\ RiskIdle

NextAgent ==
    \/ AgentRwaRaises
    \/ AgentRwaReturns
    \/ AgentYieldReturns
    \/ AgentReturns

SpecAgent == InitAgent /\ [][NextAgent]_vars

(***************************************************************************)
(* Formulas over SpecAgent.                                                *)
(***************************************************************************)
RoiDescending(l) ==
    \A i \in 1..(Len(l) - 1) : l[i].expected_roi >= l[i + 1].expected_roi

MeetsThresholds(opp) ==
    /\ opp.expected_roi >= MinExpectedRoi
    /\ opp.risk_score <= MaxRiskScore
    /\ opp.tvl >= MinTvl

OnEveryThreshold(opp) ==
    /\ opp.expected_roi = MinExpectedRoi
    /\ opp.risk_score = MaxRiskScore
    /\ opp.tvl = MinTvl

PassesMetrics(opp) ==
    /\ opp.protocol_score >= MinProtocolScore
    /\ opp.liquidity_score >= MinLiquidityScore

\* What the strategies that did not raise would contribute to the scan.
RwaContribution == IF rwaBehaviour.kind = "raised" THEN <<>> ELSE rwaBehaviour.list

(***************************************************************************)
(* C2.  When one adapter raises while it enumerates and another succeeds,  *)
(* the overall scan still returns: the exception does not reach the caller *)
(* of scan_all_opportunities, the failing adapter contributes nothing and  *)
(* the result holds the opportunities of the adapter that succeeded.       *)
(***************************************************************************)
C2_AdapterFailureIsContained ==
    agentPc = "done" =>
        /\ agentOut.kind = "returned"
        /\ IsPermutation(agentOut.list,
                         RwaContribution \o ScanOpportunities(formatted).list)

(***************************************************************************)
(* C3.  The list a scan returns is sorted by expected ROI descending: the  *)
(* list of YieldStrategy.scan_opportunities is a permutation of the        *)
(* filtered opportunities, that of scan_all_opportunities a permutation of *)
(* what the strategies returned, and in both every opportunity's           *)
(* expected_roi is at least that of the opportunity after it.              *)
(***************************************************************************)
C3_RankedByRoiDescending ==
    /\ (yieldOut.kind = "returned" /\ formatted.kind = "returned") =>
         /\ IsPermutation(yieldOut.list, FilterOpportunities(formatted.list))
         /\ RoiDescending(yieldOut.list)
    /\ agentOut.kind = "returned" =>
         /\ IsPermutation(agentOut.list, rwaBehaviour.list \o yieldOut.list)
         /\ RoiDescending(agentOut.list)

\* The agent returned three opportunities or more, and both sorts had work
\* to do: neither list was in order as it came.
C3_Witness ==
    /\ agentOut.kind = "returned"
    /\ Len(agentOut.list) >= 3
    /\ yieldOut.list # FilterOpportunities(formatted.list)
    /\ agentOut.list # allOpportunities
    /\ agentOut.list[1].expected_roi > agentOut.list[Len(agentOut.list)].expected_roi

(***************************************************************************)
(* C4.  Of two opportunities of the ranked output with equal expected ROI  *)
(* the one with the lower risk score comes first, and with equal risk      *)
(* scores the one with the smaller address (so that the output does not    *)
(* depend on the input order).                                             *)
(***************************************************************************)
TieBroken(l) ==
    \A i \in 1..(Len(l) - 1) :
        l[i].expected_roi = l[i + 1].expected_roi =>
            \/ l[i].risk_score < l[i + 1].risk_score
            \/ /\ l[i].risk_score = l[i + 1].risk_score
               /\ l[i].address <= l[i + 1].address

C4_TiesByRiskThenAddress ==
    /\ yieldOut.kind = "returned" => TieBroken(yieldOut.list)
    /\ agentOut.kind = "returned" => TieBroken(agentOut.list)

(***************************************************************************)
(* C5, as amended.  Every opportunity YieldStrategy.scan_opportunities     *)
(* returns meets the three thresholds (expected_roi >= 0.15, risk_score    *)
(* <= 0.65, tvl >= 500000), and an opportunity that meets them, also one   *)
(* exactly on them, is kept as often as it came when it passes the two     *)
(* further filters on its metrics (protocol_score >= 0.75 and              *)
(* liquidity_score >= 0.6); one that fails either of the two is dropped.   *)
(***************************************************************************)
C5_ThresholdsAndMetricsDecide ==
    (yieldOut.kind = "returned" /\ formatted.kind = "returned") =>
        /\ \A opp \in Range(yieldOut.list) : MeetsThresholds(opp)
        /\ \A opp \in Range(formatted.list) :
             IF MeetsThresholds(opp) /\ PassesMetrics(opp)
             THEN Count(opp, yieldOut.list) = Count(opp, formatted.list)
             ELSE Count(opp, yieldOut.list) = 0

\* The scan was given an opportunity exactly on the three thresholds that
\* passes the metrics filters, and one that fails a threshold by the least
\* amount: it returned the first and not the second.
C5_Witness ==
    /\ yieldOut.kind = "returned"
    /\ formatted.kind = "returned"
    /\ \E opp \in Range(formatted.list) :
         /\ OnEveryThreshold(opp) /\ PassesMetrics(opp)
         /\ opp \in Range(yieldOut.list)
    /\ \E opp \in Range(formatted.list) :
         /\ opp.expected_roi = MinExpectedRoi - 1
         /\ opp \notin Range(yieldOut.list)

(***************************************************************************)
(* C5, as the claim states it: every opportunity returned meets the three  *)
(* thresholds, and an opportunity that meets them (exactly on a threshold  *)
(* included) is kept.                                                      *)
(***************************************************************************)
C5_ThresholdsAloneDecide ==
    (yieldOut.kind = "returned" /\ formatted.kind = "returned") =>
        /\ \A opp \in Range(yieldOut.list) : MeetsThresholds(opp)
        /\ \A opp \in Range(formatted.list) :
             MeetsThresholds(opp) => opp \in Range(yieldOut.list)

(***************************************************************************)
(* SpecRate: APRCalculator's rate functions.                               *)
(*                                                                         *)
(* The inputs are what the functions read from their arguments and from    *)
(* the contracts: the emission per block and the vault's totals as raw     *)
(* integer amounts (units of 10^-18 token), the allocation points as       *)
(* integers, the reward token's price and the pool's TVL as floats.  The   *)
(* code turns each float x into Decimal(str(x)), which is the decimal      *)
(* number x prints as; the model draws these decimals.                     *)
(***************************************************************************)
MaxEmission == 2
MaxAlloc == 2
MaxPrice == 2
MaxTvl == 2
MaxVault == 2

\* APRCalculator.__init__: blocks_per_year = 10512000, PRECISION = 1e18
BLOCKS_PER_YEAR == Num(10512, 1, 3)
PRECISION == Pow10(18)
\* calculate_alpaca_base_apy: Decimal('0.15')
MAX_LENDING_APR == Num(15, 1, -2)

\* Raw emissions of 0, 0.1, 0.2, .. token per block; prices of 0, 0.5, 1.0, ..;
\* TVLs of 0, 1000, 2000, .. USD; vault totals of 0, 1, 2, .. tokens.
RateInputs ==
    [ emission : { Num(k, 1, 17) : k \in 0..MaxEmission },
      alloc    : { Num(k, 1, 0) : k \in 0..MaxAlloc },
      total    : { Num(k, 1, 0) : k \in 0..MaxAlloc },
      price    : { Num(k, 2, 0) : k \in 0..MaxPrice },
      tvl      : { Num(k, 1, 3) : k \in 0..MaxTvl },
      total_token : { Num(k, 1, 18) : k \in 0..MaxVault },
      total_debt  : { Num(k, 1, 18) : k \in 0..MaxVault } ]

\* Decimal division: x / 0 raises (decimal.DivisionByZero or
\* InvalidOperation), which every rate function re-raises as Exception.
Divide(x, y) == IF y.kind # "value" \/ x.kind # "value" THEN RaisedError
                ELSE IF IsZero(y.v) THEN RaisedError
                ELSE Value(Over(x.v, y.v))

Multiply(x, y) == IF y.kind # "value" \/ x.kind # "value" THEN RaisedError
                  ELSE Value(Times(x.v, y.v))

\* The body the three reward-rate functions share, after their guard:
\*   yearly = (per_block * BLOCKS_PER_YEAR * pool_alloc_points) / total_alloc_points
\*   yearly_usd = yearly * Decimal(str(price)) / PRECISION
\*   return float((yearly_usd / Decimal(str(tvl))) * 100)
RewardRate(per_block, alloc, total, price, tvl) ==
    LET yearly == Divide(Multiply(Multiply(Value(per_block), Value(BLOCKS_PER_YEAR)),
                                  Value(alloc)),
                         Value(total))
        yearly_usd == Divide(Multiply(yearly, Value(price)), Value(PRECISION))
    IN  Multiply(Divide(yearly_usd, Value(tvl)), Value(Hundred))

\* calculate_pancake_apr without its guard
CalculatePancakeAprUnguarded(in) ==
    RewardRate(in.emission, in.alloc, in.total, in.price, in.tvl)

CalculatePancakeApr(in) ==
    IF IsZero(in.total) \/ IsZero(in.tvl) THEN Value(Zero)
    ELSE RewardRate(in.emission, in.alloc, in.total, in.price, in.tvl)

\* calculate_alpaca_reward_apy without the division by PRECISION
CalculateAlpacaRewardApyRaw(in) ==
    IF IsZero(in.total) \/ IsZero(in.tvl) THEN Value(Zero)
    ELSE Multiply(RewardRate(in.emission, in.alloc, in.total, in.price, in.tvl),
                  Value(PRECISION))

CalculateAlpacaRewardApy(in) ==
    IF IsZero(in.total) \/ IsZero(in.tvl) THEN Value(Zero)
    ELSE RewardRate(in.emission, in.alloc, in.total, in.price, in.tvl)

CalculateBiswapApr(in) ==
    IF IsZero(in.total) \/ IsZero(in.tvl) THEN Value(Zero)
    ELSE RewardRate(in.emission, in.alloc, in.total, in.price, in.tvl)

\* utilization = total_debt / total_token
\* lending_apr = utilization * Decimal('0.15') * 100
CalculateAlpacaBaseApy(in) ==
    IF IsZero(in.total_token) THEN Value(Zero)
    ELSE LET utilization == Divide(Value(in.total_debt), Value(in.total_token))
         IN  Multiply(Multiply(utilization, Value(MAX_LENDING_APR)), Value(Hundred))

RateFunctions ==
    {"calculate_pancake_apr", "calculate_alpaca_base_apy",
     "calculate_alpaca_reward_apy", "calculate_biswap_apr"}

RateOnly == UNCHANGED <<scanVars, agentVars, priceVars, riskVars>>

RateInit ==
    /\ rateIn \in RateInputs
    /\ rateOut = [f \in RateFunctions |-> NotCalled]

CallPancakeApr ==
    /\ rateOut["calculate_pancake_apr"] = NotCalled
    /\ rateOut' = [rateOut EXCEPT !["calculate_pancake_apr"] = CalculatePancakeApr(rateIn)]
    /\ UNCHANGED rateIn
    /\ RateOnly

CallAlpacaBaseApy ==
    /\ rateOut["calculate_alpaca_base_apy"] = NotCalled
    /\ rateOut' = [rateOut EXCEPT !["calculate_alpaca_base_apy"] = CalculateAlpacaBaseApy(rateIn)]
    /\ UNCHANGED rateIn
    /\ RateOnly

CallAlpacaRewardApy ==
    /\ rateOut["calculate_alpaca_reward_apy"] = NotCalled
    /\ rateOut' = [rateOut EXCEPT !["calculate_alpaca_reward_apy"] = CalculateAlpacaRewardApy(rateIn)]
    /\ UNCHANGED rateIn
    /\ RateOnly

CallBiswapApr ==
    /\ rateOut["calculate_biswap_apr"] = NotCalled
    /\ rateOut' = [rateOut EXCEPT !["calculate_biswap_apr"] = CalculateBiswapApr(rateIn)]
    /\ UNCHANGED rateIn
    /\ RateOnly

InitRate == ScanIdle /\ AgentIdle /\ PriceIdle /\ RateInit /\ RiskIdle

NextRate ==
    \/ CallPancakeApr
    \/ CallAlpacaBaseApy
    \/ CallAlpacaRewardApy
    \/ CallBiswapApr

SpecRate == InitRate /\ [][NextRate]_vars

(***************************************************************************)
(* Formulas over SpecRate.                                                 *)
(***************************************************************************)
RewardRateFunctions ==
    {"calculate_pancake_apr", "calculate_alpaca_reward_apy", "calculate_biswap_apr"}

Called(f) == rateOut[f] # NotCalled

ReturnedZero(f) == rateOut[f].kind = "value" /\ IsZero(rateOut[f].v)

(***************************************************************************)
(* C9.  A rate function whose denominator is zero returns exactly 0 and    *)
(* raises nothing: the three reward-rate functions when the total          *)
(* allocation weight is 0 or the pool TVL is 0, whatever the other inputs  *)
(* are, and calculate_alpaca_base_apy when the total deposited is 0.       *)
(***************************************************************************)
C9_ZeroDenominatorGivesZero ==
    /\ \A f \in RewardRateFunctions :
         (Called(f) /\ (IsZero(rateIn.total) \/ IsZero(rateIn.tvl))) => ReturnedZero(f)
    /\ (Called("calculate_alpaca_base_apy") /\ IsZero(rateIn.total_token))
         => ReturnedZero("calculate_alpaca_base_apy")

\* Every function was called on a total weight of 0 with a TVL, an emission,
\* a weight and a price that are not 0, and on an empty vault that has debt.
C9_Witness ==
    /\ \A f \in RateFunctions : Called(f) /\ ReturnedZero(f)
    /\ IsZero(rateIn.total) /\ ~IsZero(rateIn.tvl)
    /\ ~IsZero(rateIn.emission) /\ ~IsZero(rateIn.alloc) /\ ~IsZero(rateIn.price)
    /\ IsZero(rateIn.total_token) /\ ~IsZero(rateIn.total_debt)

(***************************************************************************)
(* C10.  For a total allocation weight and a pool TVL that are not 0, each *)
(* of the three reward-rate functions returns                              *)
(*   100 * emissionPerBlock * blocksPerYear * (allocationWeight /          *)
(*   totalAllocationWeight) * rewardTokenPriceUSD / poolTVLUSD             *)
(* with emissionPerBlock the raw emission divided by 10^18; so the three   *)
(* return the same rate on the same inputs.                                *)
(***************************************************************************)
ExpectedRate(in) ==
    LET emissionPerBlock == Over(in.emission, Pow10(18))
        annualRewardValue ==
            Times(Times(Times(emissionPerBlock, Num(10512000, 1, 0)),
                        Over(in.alloc, in.total)),
                  in.price)
    IN  Over(Times(Hundred, annualRewardValue), in.tvl)

C10_RewardRateFormula ==
    (~IsZero(rateIn.total) /\ ~IsZero(rateIn.tvl)) =>
        /\ \A f \in RewardRateFunctions :
             Called(f) => /\ rateOut[f].kind = "value"
                          /\ NumEq(rateOut[f].v, ExpectedRate(rateIn))
        /\ \A f, g \in RewardRateFunctions :
             (Called(f) /\ Called(g)) => NumEq(rateOut[f].v, rateOut[g].v)

\* The three were called on a pool that holds a proper share of the weight,
\* with an emission and a price that are not 0: the rate is not 0.
C10_Witness ==
    /\ \A f \in RewardRateFunctions : Called(f) /\ ~ReturnedZero(f)
    /\ ~IsZero(rateIn.tvl)
    /\ rateIn.alloc.n < rateIn.total.n
    /\ NumEq(rateOut["calculate_pancake_apr"].v, Num(26280, 1, 0))

(***************************************************************************)
(* SpecPrice and SpecPair: PriceCalculator.                                *)
(*                                                                         *)
(* The chain is what the contracts answer: for every two tokens the        *)
(* factory's getPair gives the zero address ("none"), or a pair whose      *)
(* getReserves gives (r0, r1), or the calls raise ("reverts"); every token *)
(* has its decimals.  getPair does not depend on the order of its two      *)
(* arguments, and gives the zero address for a token and itself.           *)
(* A behaviour is one lookup on one chain.                                 *)
(***************************************************************************)
MaxReserve == 2

Tokens == {"TOKEN", "WBNB", "BUSD"}
WBNB == "WBNB"
BUSD == "BUSD"

DecimalsChoices == {6, 18}

AllPairs == { {a, b} : a, b \in Tokens } \ { {a} : a \in Tokens }

NoPair == [status |-> "none", r0 |-> 0, r1 |-> 0]

PairStates ==
    { NoPair, [status |-> "reverts", r0 |-> 0, r1 |-> 0] }
    \cup [status : {"pair"}, r0 : 0..MaxReserve, r1 : 0..MaxReserve]

\* factory.functions.getPair(a, b).call(), with the reserves behind it
GetPair(c, a, b) == IF {a, b} \in DOMAIN c.pair THEN c.pair[{a, b}] ELSE NoPair

\* PriceCalculator._get_token_price_from_pair(token0_address, token1_address):
\* None for the zero address, for a zero reserve and for any exception;
\* else the second reserve over the first, each divided by 10 to the
\* decimals of the argument in that position.
GetTokenPriceFromPair(c, token0_address, token1_address) ==
    LET p == GetPair(c, token0_address, token1_address)
    IN  IF p.status = "reverts" THEN NoneValue
        ELSE IF p.status = "none" THEN NoneValue
        ELSE LET reserve0 == Num(p.r0, 1, 0 - c.decimals[token0_address])
                 reserve1 == Num(p.r1, 1, 0 - c.decimals[token1_address])
             IN  IF IsZero(reserve0) \/ IsZero(reserve1) THEN NoneValue
                 ELSE Value(Over(reserve1, reserve0))

\* get_token_price that returns the first leg of the WBNB route as the price
GetTokenPriceFirstLegOnly(c, token_address) ==
    LET busd_price == GetTokenPriceFromPair(c, token_address, BUSD)
        bnb_price == GetTokenPriceFromPair(c, token_address, WBNB)
        bnb_busd_price == GetTokenPriceFromPair(c, WBNB, BUSD)
    IN  IF busd_price.kind # "None" THEN Value(busd_price.v)
        ELSE IF bnb_price.kind # "None" /\ bnb_busd_price.kind # "None"
             THEN Value(bnb_price.v)
             ELSE RaisedError

\* PriceCalculator.get_token_price: the direct BUSD pair, else the WBNB pair
\* times the WBNB/BUSD pair, else it raises "No valid price path found".
GetTokenPrice(c, token_address) ==
    LET busd_price == GetTokenPriceFromPair(c, token_address, BUSD)
        bnb_price == GetTokenPriceFromPair(c, token_address, WBNB)
        bnb_busd_price == GetTokenPriceFromPair(c, WBNB, BUSD)
    IN  IF busd_price.kind # "None" THEN Value(busd_price.v)
        ELSE IF bnb_price.kind # "None" /\ bnb_busd_price.kind # "None"
             THEN Value(Times(bnb_price.v, bnb_busd_price.v))
             ELSE RaisedError

PriceOnly ==
    UNCHANGED <<scanVars, agentVars, rateVars, riskVars,
                price_cache, now, storedAt>>

PriceInit ==
    /\ chain \in [pair : [AllPairs -> PairStates],
                  decimals : [Tokens -> DecimalsChoices]]
    /\ priceCall = <<"none">>
    /\ priceRet = NotCalled
    /\ priceRev = NotCalled
    /\ price_cache = <<>> /\ now = 0 /\ storedAt = <<>>

\* One pair between TOKEN and WBNB, and BUSD with its 18 decimals.
PairInit ==
    /\ chain \in [pair : [AllPairs -> PairStates],
                  decimals : [Tokens -> DecimalsChoices]]
    /\ \A k \in AllPairs : k # {"TOKEN", WBNB} => chain.pair[k] = NoPair
    /\ chain.decimals[BUSD] = 18
    /\ priceCall = <<"none">>
    /\ priceRet = NotCalled
    /\ priceRev = NotCalled
    /\ price_cache = <<>> /\ now = 0 /\ storedAt = <<>>

TokenPriceCall(t) ==
    /\ priceCall = <<"none">>
    /\ priceCall' = <<"token", t>>
    /\ priceRet' = GetTokenPrice(chain, t)
    /\ UNCHANGED <<chain, priceRev>>
    /\ PriceOnly

PairPriceCall(a, b) ==
    /\ priceCall = <<"none">>
    /\ priceCall' = <<"pair", a, b>>
    /\ priceRet' = GetTokenPriceFromPair(chain, a, b)
    /\ UNCHANGED <<chain, priceRev>>
    /\ PriceOnly

\* The same lookup with the two tokens swapped, on the same chain.
PairPriceReverseCall ==
    /\ priceCall[1] = "pair"
    /\ priceRev = NotCalled
    /\ priceRev' = GetTokenPriceFromPair(chain, priceCall[3], priceCall[2])
    /\ UNCHANGED <<chain, priceCall, priceRet>>
    /\ PriceOnly

InitPrice == ScanIdle /\ AgentIdle /\ PriceInit /\ RateIdle /\ RiskIdle

NextPrice == \E t \in Tokens : TokenPriceCall(t)

SpecPrice == InitPrice /\ [][NextPrice]_vars

InitPair == ScanIdle /\ AgentIdle /\ PairInit /\ RateIdle /\ RiskIdle

NextPair ==
    \/ \E a, b \in {"TOKEN", WBNB} : a # b /\ PairPriceCall(a, b)
    \/ PairPriceReverseCall

SpecPair == InitPair /\ [][NextPair]_vars

(***************************************************************************)
(* Formulas over SpecPrice and SpecPair.                                   *)
(***************************************************************************)
TokenCalled(t) == priceCall = <<"token", t>>

\* The token has no pair with BUSD, and no pair with WBNB or WBNB none with
\* BUSD: no path of one or two hops.
NoPricePath(c, t) ==
    /\ GetPair(c, t, BUSD).status = "none"
    /\ \/ GetPair(c, t, WBNB).status = "none"
       \/ GetPair(c, WBNB, BUSD).status = "none"

(***************************************************************************)
(* C6.  The price resolution of a token that has no direct pair with the   *)
(* reference currency and no 2-hop path through the intermediate token     *)
(* ends with an explicit unresolved outcome that is returned to the        *)
(* caller, never with a raised exception.                                  *)
(***************************************************************************)
C6_NoPathIsReturnedUnresolved ==
    \A t \in Tokens :
        (TokenCalled(t) /\ NoPricePath(chain, t)) => priceRet.kind = "None"

(***************************************************************************)
(* C7.  get_token_price returns the price of the direct token/BUSD pair    *)
(* whenever that pair yields one; otherwise, when the token/WBNB pair and  *)
(* the WBNB/BUSD pair both yield a price, it returns the product of the    *)
(* two.                                                                    *)
(***************************************************************************)
C7_DirectPairThenWbnbRoute ==
    \A t \in Tokens :
        TokenCalled(t) =>
            LET direct == GetTokenPriceFromPair(chain, t, BUSD)
                leg1 == GetTokenPriceFromPair(chain, t, WBNB)
                leg2 == GetTokenPriceFromPair(chain, WBNB, BUSD)
            IN  /\ direct.kind = "value" =>
                     /\ priceRet.kind = "value"
                     /\ NumEq(priceRet.v, direct.v)
                /\ (direct.kind # "value" /\ leg1.kind = "value" /\ leg2.kind = "value") =>
                     /\ priceRet.kind = "value"
                     /\ NumEq(priceRet.v, Times(leg1.v, leg2.v))

\* TOKEN has no pair with BUSD; its pair with WBNB holds (1, 2) and the
\* WBNB/BUSD pair (2, 1), so neither leg is 1 and the price is their product.
C7_Witness ==
    /\ TokenCalled("TOKEN")
    /\ GetPair(chain, "TOKEN", BUSD).status = "none"
    /\ GetPair(chain, "TOKEN", WBNB) = [status |-> "pair", r0 |-> 1, r1 |-> 2]
    /\ GetPair(chain, WBNB, BUSD) = [status |-> "pair", r0 |-> 2, r1 |-> 1]
    /\ chain.decimals = [t \in Tokens |-> 18]
    /\ priceRet.kind = "value"
    /\ NumEq(priceRet.v, One)

(***************************************************************************)
(* C8.  For two tokens whose pair has two nonzero reserves, and for every  *)
(* choice of their decimals, the pair price of A in B times the pair price *)
(* of B in A is 1.                                                         *)
(***************************************************************************)
C8_PairPricesAreReciprocal ==
    (priceCall[1] = "pair" /\ priceRet.kind = "value" /\ priceRev.kind = "value") =>
        NumEq(Times(priceRet.v, priceRev.v), One)

(***************************************************************************)
(* SpecLending: the two functions that turn a lending market's per-block   *)
(* rates into yearly percentages, APRCalculator.calculate_venus_rates and  *)
(* DataFetcher.get_lending_borrow_rates, called on the same market         *)
(* contract.                                                               *)
(*                                                                         *)
(* The contract is one whose call() returns the value ("sync", the         *)
(* contracts of Web3 that YieldScanner builds) or one whose call() returns *)
(* an awaitable ("async", the contracts of AsyncWeb3).                     *)
(* calculate_venus_rates passes what call() returns to Decimal(str(..)),   *)
(* get_lending_borrow_rates awaits it.                                     *)
(*                                                                         *)
(* calculate_venus_rates has no await: its two reads see one state of the  *)
(* market.  get_lending_borrow_rates awaits the supply rate and then the   *)
(* borrow rate: it is suspended between the two reads, and the rates of    *)
(* the market can change while it is.                                      *)
(*                                                                         *)
(* A yearly percentage is kept in the form the code computes it in:        *)
(*   Linear(p)    the number p;                                            *)
(*   Compound(x)  ((1 + x) ** 10512000 - 1) * 100, for the per-block rate  *)
(*                x.  The power is not evaluated: for x > 0 it is above    *)
(*                1 + 10512000 * x (Bernoulli), and it is 1 for x = 0.     *)
(***************************************************************************)
MaxRate == 3
MaxRateChanges == 1

Linear(p) == [form |-> "linear", x |-> p]
Compound(x) == [form |-> "compound", x |-> x]

\* The outcome of a call that gives (supply_apy, borrow_apy)
RatesNotCalled == [kind |-> "pending", supply |-> Linear(Zero), borrow |-> Linear(Zero)]
RatesRaised == [kind |-> "raised", supply |-> Linear(Zero), borrow |-> Linear(Zero)]
Rates(s, b) == [kind |-> "value", supply |-> s, borrow |-> b]

\* get_lending_borrow_rates between its two awaits: supply_rate holds the raw
\* rate that was read, borrow_rate is not yet bound
Raw(r) == [form |-> "raw", x |-> r]
RatesSuspended(supply_rate) ==
    [kind |-> "suspended", supply |-> Raw(supply_rate), borrow |-> Raw(Zero)]

\* supplyRatePerBlock() and borrowRatePerBlock(): multiples of 1e10, the order
\* of the rates of a lending market (1e10 a block is about 11% a year)
MarketRates == { Num(k, 1, 10) : k \in 0..MaxRate }

\* The market contract: the rates it answers with now, the kind of contract,
\* and how often its rates have changed since the first call.
LendingInputs ==
    [ supply_rate : MarketRates,
      borrow_rate : MarketRates,
      contract    : {"sync", "async"},
      changes     : {0} ]

\* ((Decimal('1') + rate * self.BLOCKS_PER_YEAR / self.PRECISION) - Decimal('1')) * 100
VenusApy(rate) ==
    Times(Minus(Plus(One, Over(Times(rate, BLOCKS_PER_YEAR), PRECISION)), One),
          Hundred)

\* APRCalculator.calculate_venus_rates: Decimal(str(<coroutine>)) raises for
\* an async contract, which the except branch raises again.
CalculateVenusRates(in) ==
    IF in.contract = "async" THEN RatesRaised
    ELSE Rates(Linear(VenusApy(in.supply_rate)), Linear(VenusApy(in.borrow_rate)))

\* ((1 + rate / 1e18) ** blocks_per_year - 1) * 100
LendingApy(rate) == Compound(Over(rate, Pow10(18)))

\* DataFetcher.get_lending_borrow_rates after its two reads: the pair of the
\* yearly rates of the two raw rates it holds.
GetLendingBorrowRates(supply_rate, borrow_rate) ==
    Rates(LendingApy(supply_rate), LendingApy(borrow_rate))

LendingFunctions == {"calculate_venus_rates", "get_lending_borrow_rates"}

LendingInit ==
    /\ rateIn \in LendingInputs
    /\ rateOut = [f \in LendingFunctions |-> RatesNotCalled]

CallVenusRates ==
    /\ rateOut["calculate_venus_rates"] = RatesNotCalled
    /\ rateOut' = [rateOut EXCEPT !["calculate_venus_rates"] = CalculateVenusRates(rateIn)]
    /\ UNCHANGED rateIn
    /\ RateOnly

\* get_lending_borrow_rates up to its second await: "await <int>" raises
\* TypeError for a sync contract, which the except branch logs and raises
\* again; for an async contract the supply rate is read.
CallLendingBorrowRates ==
    /\ rateOut["get_lending_borrow_rates"] = RatesNotCalled
    /\ rateOut' = [rateOut EXCEPT !["get_lending_borrow_rates"] =
                      IF rateIn.contract = "sync" THEN RatesRaised
                      ELSE RatesSuspended(rateIn.supply_rate)]
    /\ UNCHANGED rateIn
    /\ RateOnly

\* get_lending_borrow_rates from its second await to its return: the borrow
\* rate is read from the market as it is now.
ResumeLendingBorrowRates ==
    /\ rateOut["get_lending_borrow_rates"].kind = "suspended"
    /\ rateOut' = [rateOut EXCEPT !["get_lending_borrow_rates"] =
                      GetLendingBorrowRates(@.supply.x, rateIn.borrow_rate)]
    /\ UNCHANGED rateIn
    /\ RateOnly

\* A block is mined: the market answers with other rates from now on.
MarketRatesChange ==
    /\ rateIn.changes < MaxRateChanges
    /\ \E s, b \in MarketRates :
         /\ <<s, b>> # <<rateIn.supply_rate, rateIn.borrow_rate>>
         /\ rateIn' = [rateIn EXCEPT !.supply_rate = s, !.borrow_rate = b,
                                     !.changes = @ + 1]
    /\ UNCHANGED rateOut
    /\ RateOnly

InitLending == ScanIdle /\ AgentIdle /\ PriceIdle /\ LendingInit /\ RiskIdle

NextLending ==
    \/ CallVenusRates
    \/ CallLendingBorrowRates
    \/ ResumeLendingBorrowRates
    \/ MarketRatesChange

SpecLending == InitLending /\ [][NextLending]_vars

(***************************************************************************)
(* Formulas over SpecLending                                               *)
(***************************************************************************)
\* The yearly percentage v can be the compounded rate of the raw per-block
\* rate: it is Compound of raw / 1e18, or it is a number that is 0 for a raw
\* rate of 0 and above the linear rate 100 * 10512000 * raw / 1e18 otherwise.
CanBeCompounded(v, raw) ==
    LET x == Over(raw, Pow10(18))
        linear == Times(Hundred, Times(Num(10512000, 1, 0), x))
    IN  IF v.form = "compound" THEN NumEq(v.x, x)
        ELSE IF IsZero(raw) THEN IsZero(v.x)
        ELSE ~LessEq(v.x, linear)

\* Two yearly percentages can be equal
CanBeEqual(v, w) ==
    IF v.form = w.form THEN NumEq(v.x, w.x)
    ELSE LET c == IF v.form = "compound" THEN v ELSE w
             l == IF v.form = "compound" THEN w ELSE v
         IN  IF IsZero(c.x) THEN IsZero(l.x)
             ELSE ~LessEq(l.x, Times(Hundred, Times(Num(10512000, 1, 0), c.x)))

RatesReturned(f) == rateOut[f].kind = "value"

(***************************************************************************)
(* C11.  For a market whose rates did not change, whatever                 *)
(* calculate_venus_rates and get_lending_borrow_rates return for the       *)
(* supply rate and for the borrow rate is the compounded yearly rate       *)
(* 100 * ((1 + raw / 1e18)^blocksPerYear - 1), and when both return they   *)
(* return the same two rates.                                              *)
(***************************************************************************)
C11_LendingRatesAreCompounded ==
    rateIn.changes = 0 =>
    /\ \A f \in LendingFunctions :
         RatesReturned(f) =>
            /\ CanBeCompounded(rateOut[f].supply, rateIn.supply_rate)
            /\ CanBeCompounded(rateOut[f].borrow, rateIn.borrow_rate)
    /\ \A f, g \in LendingFunctions :
         (RatesReturned(f) /\ RatesReturned(g)) =>
            /\ CanBeEqual(rateOut[f].supply, rateOut[g].supply)
            /\ CanBeEqual(rateOut[f].borrow, rateOut[g].borrow)

(***************************************************************************)
(* C12.  For a vault with a nonzero total deposited amount and a debt that *)
(* is not above it, calculate_alpaca_base_apy returns                      *)
(* (totalDeposited - totalDebt) / totalDeposited * maxLendingRate, with    *)
(* maxLendingRate = 15 percent: 15 for a vault without debt and 0 for a    *)
(* vault whose debt equals its deposits.                                   *)
(***************************************************************************)
ExpectedBaseApy(in) ==
    Times(Times(Over(Minus(in.total_token, in.total_debt), in.total_token),
                MAX_LENDING_APR),
          Hundred)

C12_BaseApyFallsWithDebt ==
    (/\ Called("calculate_alpaca_base_apy")
     /\ ~IsZero(rateIn.total_token)
     /\ LessEq(rateIn.total_debt, rateIn.total_token)) =>
        /\ rateOut["calculate_alpaca_base_apy"].kind = "value"
        /\ NumEq(rateOut["calculate_alpaca_base_apy"].v, ExpectedBaseApy(rateIn))

(***************************************************************************)
(* Risk scores.  The risk functions compute in float; the model computes   *)
(* in integers that count ten-thousandths: Unit is 1.0, 1000 is 0.1, and   *)
(* the product of two scores is their integer product divided by Unit.     *)
(* The scores and weights are multiples of 0.01, so the products are       *)
(* exact; the rounding of float is not modelled.                           *)
(***************************************************************************)
Unit == 10000

\* k hundredths: Hundredths(25) is 0.25
Hundredths(k) == k * (Unit \div 100)

RiskMul(a, b) == (a * b) \div Unit

Min(a, b) == IF a <= b THEN a ELSE b
Max(a, b) == IF a >= b THEN a ELSE b

\* The outcome of a call that gives a score
ScoreNotCalled == [kind |-> "pending", v |-> 0]
ScoreRaised == [kind |-> "raised", v |-> 0]
ScoreValue(x) == [kind |-> "value", v |-> x]

(***************************************************************************)
(* SpecSteps: the step functions RiskCalculator.calculate_tvl_risk,        *)
(* RiskCalculator.calculate_age_risk and YieldScanner._calculate_age_risk, *)
(* each called on two inputs a and b drawn around its thresholds.          *)
(***************************************************************************)
MaxDelta == 1

\* TVL_THRESHOLDS and AGE_THRESHOLDS, in the order the dict is written in,
\* which is the order its items() are iterated in
TVL_THRESHOLDS ==
    << <<10000000, Hundredths(10)>>, <<5000000, Hundredths(30)>>,
       <<1000000, Hundredths(50)>>, <<500000, Hundredths(70)>>,
       <<0, Hundredths(90)>> >>

AGE_THRESHOLDS ==
    << <<365, Hundredths(20)>>, <<180, Hundredths(40)>>,
       <<90, Hundredths(60)>>, <<30, Hundredths(80)>>,
       <<0, Hundredths(100)>> >>

\* for threshold, risk in table.items(): if x >= threshold: return risk
\* and after the loop: return 1.0
RECURSIVE FirstThresholdMet(_, _)
FirstThresholdMet(table, x) ==
    IF table = <<>> THEN Unit
    ELSE IF x >= Head(table)[1] THEN Head(table)[2]
    ELSE FirstThresholdMet(Tail(table), x)

\* the same loop with "x > threshold"
RECURSIVE FirstThresholdExceeded(_, _)
FirstThresholdExceeded(table, x) ==
    IF table = <<>> THEN Unit
    ELSE IF x > Head(table)[1] THEN Head(table)[2]
    ELSE FirstThresholdExceeded(Tail(table), x)

\* calculate_tvl_risk with exclusive thresholds
CalculateTvlRiskExclusive(tvl) == ScoreValue(FirstThresholdExceeded(TVL_THRESHOLDS, tvl))

\* RiskCalculator.calculate_tvl_risk
CalculateTvlRisk(tvl) == ScoreValue(FirstThresholdMet(TVL_THRESHOLDS, tvl))

\* calculate_age_risk with exclusive thresholds
CalculateAgeRiskExclusive(age_in_days) ==
    ScoreValue(FirstThresholdExceeded(AGE_THRESHOLDS, age_in_days))

\* RiskCalculator.calculate_age_risk
CalculateAgeRisk(age_in_days) == ScoreValue(FirstThresholdMet(AGE_THRESHOLDS, age_in_days))

\* YieldScanner._calculate_age_risk: the if / elif chain
ScannerCalculateAgeRisk(age_in_days) ==
    ScoreValue(IF age_in_days >= 365 THEN Hundredths(20)
               ELSE IF age_in_days >= 180 THEN Hundredths(40)
               ELSE IF age_in_days >= 90 THEN Hundredths(60)
               ELSE IF age_in_days >= 30 THEN Hundredths(80)
               ELSE Hundredths(100))

\* The inputs drawn: the thresholds of a table and their neighbours
Around(table) ==
    { table[i][1] + d : i \in 1..Len(table), d \in (0 - MaxDelta)..MaxDelta }

StepInputs ==
    [fn : {"tvl"}, a : Around(TVL_THRESHOLDS), b : Around(TVL_THRESHOLDS)]
    \cup [fn : {"age"}, a : Around(AGE_THRESHOLDS), b : Around(AGE_THRESHOLDS)]

StepCalls ==
    {"calculate_tvl_risk", "calculate_age_risk", "_calculate_age_risk"}

RiskOnly == UNCHANGED <<scanVars, agentVars, priceVars, rateVars>>

StepsInit ==
    /\ riskIn \in StepInputs
    /\ riskOut = [f \in StepCalls |-> [a |-> ScoreNotCalled, b |-> ScoreNotCalled]]

CallTvlRisk ==
    /\ riskIn.fn = "tvl"
    /\ \E w \in {"a", "b"} :
         /\ riskOut["calculate_tvl_risk"][w] = ScoreNotCalled
         /\ riskOut' = [riskOut EXCEPT !["calculate_tvl_risk"][w] =
                                          CalculateTvlRisk(riskIn[w])]
    /\ UNCHANGED riskIn
    /\ RiskOnly

CallAgeRisk ==
    /\ riskIn.fn = "age"
    /\ \E w \in {"a", "b"} :
         /\ riskOut["calculate_age_risk"][w] = ScoreNotCalled
         /\ riskOut' = [riskOut EXCEPT !["calculate_age_risk"][w] =
                                          CalculateAgeRisk(riskIn[w])]
    /\ UNCHANGED riskIn
    /\ RiskOnly

CallScannerAgeRisk ==
    /\ riskIn.fn = "age"
    /\ \E w \in {"a", "b"} :
         /\ riskOut["_calculate_age_risk"][w] = ScoreNotCalled
         /\ riskOut' = [riskOut EXCEPT !["_calculate_age_risk"][w] =
                                          ScannerCalculateAgeRisk(riskIn[w])]
    /\ UNCHANGED riskIn
    /\ RiskOnly

InitSteps == ScanIdle /\ AgentIdle /\ PriceIdle /\ RateIdle /\ StepsInit

NextSteps ==
    \/ CallTvlRisk
    \/ CallAgeRisk
    \/ CallScannerAgeRisk

SpecSteps == InitSteps /\ [][NextSteps]_vars

(***************************************************************************)
(* Formulas over SpecSteps                                                 *)
(***************************************************************************)
StepCalled(f, w) == riskOut[f][w] # ScoreNotCalled

\* The table of the specification: the value of the first threshold, from
\* the highest down, that x meets or exceeds, else the last value
TvlRiskTable(x) ==
    IF x >= 10000000 THEN 1000
    ELSE IF x >= 5000000 THEN 3000
    ELSE IF x >= 1000000 THEN 5000
    ELSE IF x >= 500000 THEN 7000
    ELSE 9000

AgeRiskTable(x) ==
    IF x >= 365 THEN 2000
    ELSE IF x >= 180 THEN 4000
    ELSE IF x >= 90 THEN 6000
    ELSE IF x >= 30 THEN 8000
    ELSE 10000

(***************************************************************************)
(* C14.  For every TVL >= 0 calculate_tvl_risk returns 0.1 from 10,000,000 *)
(* up, else 0.3 from 5,000,000, else 0.5 from 1,000,000, else 0.7 from     *)
(* 500,000, else 0.9, each threshold included; and of two TVLs the larger  *)
(* never gets the larger risk.                                             *)
(***************************************************************************)
C14_TvlRiskSteps ==
    riskIn.fn = "tvl" =>
        /\ \A w \in {"a", "b"} :
             (StepCalled("calculate_tvl_risk", w) /\ riskIn[w] >= 0) =>
                riskOut["calculate_tvl_risk"][w] = ScoreValue(TvlRiskTable(riskIn[w]))
        /\ (/\ StepCalled("calculate_tvl_risk", "a")
            /\ StepCalled("calculate_tvl_risk", "b")
            /\ 0 <= riskIn.a /\ riskIn.a <= riskIn.b) =>
                riskOut["calculate_tvl_risk"].b.v <= riskOut["calculate_tvl_risk"].a.v

\* 9,999,999 got 0.3 and 10,000,000 got 0.1
C14_Witness ==
    /\ riskIn.fn = "tvl" /\ riskIn.a = 9999999 /\ riskIn.b = 10000000
    /\ riskOut["calculate_tvl_risk"].a = ScoreValue(3000)
    /\ riskOut["calculate_tvl_risk"].b = ScoreValue(1000)

(***************************************************************************)
(* C15.  For every age in days >= 0 calculate_age_risk, and the scanner's  *)
(* own _calculate_age_risk, return 0.2 from 365 days up, else 0.4 from     *)
(* 180, else 0.6 from 90, else 0.8 from 30, else 1.0, each threshold       *)
(* included; and of two ages the larger never gets the larger risk.        *)
(***************************************************************************)
C15_AgeRiskSteps ==
    riskIn.fn = "age" =>
        \A f \in {"calculate_age_risk", "_calculate_age_risk"} :
            /\ \A w \in {"a", "b"} :
                 (StepCalled(f, w) /\ riskIn[w] >= 0) =>
                    riskOut[f][w] = ScoreValue(AgeRiskTable(riskIn[w]))
            /\ (/\ StepCalled(f, "a") /\ StepCalled(f, "b")
                /\ 0 <= riskIn.a /\ riskIn.a <= riskIn.b) =>
                    riskOut[f].b.v <= riskOut[f].a.v

\* 29 days got 1.0 and 30 days got 0.8, from both functions
C15_Witness ==
    /\ riskIn.fn = "age" /\ riskIn.a = 29 /\ riskIn.b = 30
    /\ \A f \in {"calculate_age_risk", "_calculate_age_risk"} :
         /\ riskOut[f].a = ScoreValue(10000)
         /\ riskOut[f].b = ScoreValue(8000)

(***************************************************************************)
(* SpecComposite: RiskCalculator.calculate_composite_risk_score on drawn   *)
(* scores, with the weight table of __init__ or with a table that was      *)
(* assigned to RISK_WEIGHTS afterwards.                                    *)
(***************************************************************************)
MaxGrid == 2

\* self.RISK_WEIGHTS
RISK_WEIGHTS ==
    [tvl |-> Hundredths(25), volatility |-> Hundredths(20), age |-> Hundredths(15),
     il |-> Hundredths(20), protocol |-> Hundredths(20)]

\* Tables that do not sum to 1: every weight 0.5 (sum 2.5), every weight 0
WeightTables ==
    { RISK_WEIGHTS,
      [tvl |-> Hundredths(50), volatility |-> Hundredths(50), age |-> Hundredths(50),
       il |-> Hundredths(50), protocol |-> Hundredths(50)],
      [tvl |-> 0, volatility |-> 0, age |-> 0, il |-> 0, protocol |-> 0] }

\* Sub-scores on a grid over [0, 1]
GridScores == { Hundredths(k * (100 \div MaxGrid)) : k \in 0..MaxGrid }

\* The protocol argument: inside [0, 1], and outside it (a 24-hour TVL
\* change in percent is any number)
ProtocolArguments == { Hundredths(k) : k \in {-2000, -100, 0, 50, 100, 200, 2000} }

CompositeInputs ==
    [ tvl_score : GridScores, volatility_score : GridScores,
      age_score : GridScores, il_risk : GridScores,
      protocol_score : ProtocolArguments, weights : WeightTables ]

\* the weighted sum with the protocol score taken as it is, not as 1 - score
WeightedSumNotInverted(w, tvl_score, volatility_score, age_score, il_risk, protocol_score) ==
    RiskMul(tvl_score, w.tvl) + RiskMul(volatility_score, w.volatility)
    + RiskMul(age_score, w.age) + RiskMul(il_risk, w.il)
    + RiskMul(protocol_score, w.protocol)

\* composite_score = tvl_score * w['tvl'] + volatility_score * w['volatility']
\*                 + age_score * w['age'] + il_risk * w['il']
\*                 + (1 - protocol_score) * w['protocol']
WeightedSum(w, tvl_score, volatility_score, age_score, il_risk, protocol_score) ==
    RiskMul(tvl_score, w.tvl) + RiskMul(volatility_score, w.volatility)
    + RiskMul(age_score, w.age) + RiskMul(il_risk, w.il)
    + RiskMul(Unit - protocol_score, w.protocol)

\* calculate_composite_risk_score without the clamp
CompositeUnclamped(w, tvl_score, volatility_score, age_score, il_risk, protocol_score) ==
    ScoreValue(WeightedSum(w, tvl_score, volatility_score, age_score, il_risk,
                           protocol_score))

\* RiskCalculator.calculate_composite_risk_score:
\*   return min(1.0, max(0.0, float(composite_score)))
CalculateCompositeRiskScore(w, tvl_score, volatility_score, age_score, il_risk, protocol_score) ==
    ScoreValue(Min(Unit, Max(0, WeightedSum(w, tvl_score, volatility_score,
                                            age_score, il_risk, protocol_score))))

CompositeInit ==
    /\ riskIn \in CompositeInputs
    /\ riskOut = ScoreNotCalled

CallComposite ==
    /\ riskOut = ScoreNotCalled
    /\ riskOut' = CalculateCompositeRiskScore(riskIn.weights, riskIn.tvl_score,
                      riskIn.volatility_score, riskIn.age_score, riskIn.il_risk,
                      riskIn.protocol_score)
    /\ UNCHANGED riskIn
    /\ RiskOnly

InitComposite == ScanIdle /\ AgentIdle /\ PriceIdle /\ RateIdle /\ CompositeInit

NextComposite == CallComposite

SpecComposite == InitComposite /\ [][NextComposite]_vars

(***************************************************************************)
(* C13.  calculate_composite_risk_score returns a value in [0,1] for every *)
(* five numbers it is given and every weight table: for sub-scores in      *)
(* [0,1] and weights that sum to 1, and also for weights that sum to more  *)
(* than 1 and for a protocol argument outside [0,1].                       *)
(***************************************************************************)
InUnitRange(o) == o.kind = "value" /\ 0 <= o.v /\ o.v <= Unit

C13_CompositeInUnitRange ==
    riskOut # ScoreNotCalled => InUnitRange(riskOut)

\* The weighted sum was above 1 (the weights sum to 2.5, the protocol
\* argument is -20) and 1.0 was returned
C13_Witness ==
    /\ riskOut = ScoreValue(Unit)
    /\ riskIn.weights.tvl = Hundredths(50)
    /\ riskIn.protocol_score = Hundredths(-2000)
    /\ WeightedSum(riskIn.weights, riskIn.tvl_score, riskIn.volatility_score,
                   riskIn.age_score, riskIn.il_risk, riskIn.protocol_score) > Unit

(***************************************************************************)
(* SpecScore: the risk scoring of the four pool coroutines, from the       *)
(* values their earlier steps gave to what the coroutine returns:          *)
(*   _get_pancake_pool_info   lines 369-410                                *)
(*   _get_venus_market_info   line 448                                     *)
(*   _get_alpaca_pool_info    line 548                                     *)
(*   _get_biswap_pool_info    lines 650-685                                *)
(* The earlier steps are taken to have returned (in Spec they can raise).  *)
(*                                                                         *)
(* The venus and the alpaca coroutine raise before they reach their        *)
(* scoring lines (AlwaysRaises) and return None.  The pancakeswap          *)
(* coroutine computes its score and raises while it builds the record.     *)
(* Only the biswap coroutine returns a record.                             *)
(*                                                                         *)
(* A coroutine is suspended while it awaits get_protocol_metrics, and the  *)
(* biswap coroutine again while it awaits get_pool_creation_block, which   *)
(* it calls after the protocol metrics have arrived: the creation block    *)
(* that enters its score is the one the data fetcher answers with then.    *)
(* The pancakeswap coroutine has computed its age factor before it waits.  *)
(*                                                                         *)
(* The standard deviations and the drawdown that the volatility and the    *)
(* impermanent-loss functions compute from the price histories are drawn:  *)
(* they are numbers >= 0, here also above 1.                               *)
(***************************************************************************)
\* DataFetcher._calculate_change, a percentage: 1.0 is one percent
CalculateChange(old_value, new_value) ==
    IF old_value = 0 THEN 0
    ELSE ((new_value - old_value) * 100 * Unit) \div old_value

\* DataFetcher.get_protocol_metrics: 'tvl_change_24h' of the last two
\* entries of the protocol's TVL series
TvlChange24h(in) == CalculateChange(in.tvl_before, in.tvl_last)

\* RiskCalculator.calculate_pool_volatility, from annual_vol on:
\*   volatility_score = min(1.0, annual_vol)
CalculatePoolVolatility(annual_vol) == Min(Unit, annual_vol)

\* RiskCalculator.calculate_impermanent_loss_risk, from the two measures on:
\*   il_risk = min(1.0, ratio_volatility) * 0.7 + min(1.0, max_drawdown) * 0.3
CalculateImpermanentLossRisk(ratio_volatility, max_drawdown) ==
    RiskMul(Min(Unit, ratio_volatility), Hundredths(70))
    + RiskMul(Min(Unit, max_drawdown), Hundredths(30))

\* The five arguments a coroutine passes to calculate_composite_risk_score
\* when the values it reads are those of in.  in.age is int(age_in_days) for
\* pancakeswap and the creation block number for the other three; the fourth
\* argument is the literal 0 for venus and alpaca; the fifth is
\* protocol_metrics['tvl_change_24h'] for all four.
RiskFactors(in) ==
    [ tvl |-> CalculateTvlRisk(in.tvl).v,
      volatility |-> CalculatePoolVolatility(in.annual_vol),
      age |-> CalculateAgeRisk(in.age).v,
      il |-> IF in.protocol \in {"venus", "alpaca"} THEN 0
             ELSE CalculateImpermanentLossRisk(in.ratio_volatility, in.max_drawdown),
      protocol |-> TvlChange24h(in) ]

FactorNames == {"tvl", "volatility", "age", "il", "protocol"}

\* The factors of names that a coroutine computes in one of its steps
FactorsNow(in, names) == [ n \in names |-> RiskFactors(in)[n] ]

\* calculate_composite_risk_score on the five factors f
CompositeOf(f) ==
    CalculateCompositeRiskScore(RISK_WEIGHTS, f.tvl, f.volatility, f.age,
                                f.il, f.protocol).v

\* borrow_risk = supply_risk * 1.2
BorrowRisk(supply_risk) == RiskMul(supply_risk, Hundredths(120))

\* A record that carried 1.2 times the composite as its score
RecordScoresScaled(p, f) == { <<"risk_score", BorrowRisk(CompositeOf(f))>> }

\* The risk scores of the record the coroutine of protocol p returns, by field
\* name, f being the five factors
RecordScores(p, f) ==
    IF p = "venus"
    THEN { <<"supply_risk_score", CompositeOf(f)>>,
           <<"borrow_risk_score", BorrowRisk(CompositeOf(f))>> }
    ELSE { <<"risk_score", CompositeOf(f)>> }

\* What is above 1 (1.5) beside the grid over [0, 1]
RawMeasures == GridScores \cup {Hundredths(150)}

\* What get_pool_creation_block answers with (for pancakeswap: the age in
\* days computed from it)
CreationBlocks == {0, 30, 365, 30000000}

\* How often the answer for the creation block changes during one scoring
MaxBlockChanges == 1

ScoreInputs ==
    [ protocol : Protocols,
      tvl : {0, 500000, 10000000},
      annual_vol : RawMeasures,
      ratio_volatility : RawMeasures,
      max_drawdown : RawMeasures,
      age : CreationBlocks,
      tvl_before : {0, 100},
      tvl_last : {50, 100, 101, 200},
      changes : {0} ]

\* The coroutine: not started; suspended at pc with the factors f it has
\* computed; returned None (the except branch); returned the record.
ScoreNotDone == [kind |-> "pending", factors |-> <<>>, scores |-> {}]
ScoreWaiting(pc, f) == [kind |-> pc, factors |-> f, scores |-> {}]
ReturnedNone(f) == [kind |-> "None", factors |-> f, scores |-> {}]
Scored(p, f) == [kind |-> "record", factors |-> f, scores |-> RecordScores(p, f)]

\* calculate_composite_risk_score was called: riskOut holds its arguments
CompositeCalled == DOMAIN riskOut.factors = FactorNames

ScoreInit ==
    /\ riskIn \in ScoreInputs
    /\ riskOut = ScoreNotDone

\* _get_pancake_pool_info, lines 369-383: il_risk, age_risk of the age in
\* days and tvl_risk are computed; the coroutine awaits the protocol metrics.
ScorePancakePool ==
    /\ riskIn.protocol = "pancakeswap"
    /\ riskOut = ScoreNotDone
    /\ riskOut' = ScoreWaiting("protocol_metrics",
                               FactorsNow(riskIn, {"il", "age", "tvl"}))
    /\ UNCHANGED riskIn
    /\ RiskOnly

\* _get_pancake_pool_info, lines 383-414: the metrics have arrived, the
\* composite is computed, and the 'volume_24h' entry of the record raises
\* TypeError: the except branch returns None.
ResumePancakePool ==
    /\ riskIn.protocol = "pancakeswap"
    /\ riskOut.kind = "protocol_metrics"
    /\ riskOut' = ReturnedNone(riskOut.factors
                               @@ FactorsNow(riskIn, {"volatility", "protocol"}))
    /\ UNCHANGED riskIn
    /\ RiskOnly

\* _get_venus_market_info: get_lending_borrow_rates raises at line 448, the
\* except branch returns None; lines 461-497 are not reached.
ScoreVenusMarket ==
    /\ riskIn.protocol = "venus"
    /\ riskOut = ScoreNotDone
    /\ riskOut' = ReturnedNone(<<>>)
    /\ UNCHANGED riskIn
    /\ RiskOnly

\* _get_alpaca_pool_info: self.ADDRESSES['ALPACA'] raises at line 548, the
\* except branch returns None; lines 556-585 are not reached.
ScoreAlpacaPool ==
    /\ riskIn.protocol = "alpaca"
    /\ riskOut = ScoreNotDone
    /\ riskOut' = ReturnedNone(<<>>)
    /\ UNCHANGED riskIn
    /\ RiskOnly

\* _get_biswap_pool_info, lines 650-660: il_risk, volatility_score and
\* tvl_risk are computed; the coroutine awaits the protocol metrics.
ScoreBiswapPool ==
    /\ riskIn.protocol = "biswap"
    /\ riskOut = ScoreNotDone
    /\ riskOut' = ScoreWaiting("protocol_metrics",
                               FactorsNow(riskIn, {"il", "volatility", "tvl"}))
    /\ UNCHANGED riskIn
    /\ RiskOnly

\* _get_biswap_pool_info, lines 660-666: the metrics have arrived; the
\* coroutine awaits get_pool_creation_block.
ResumeBiswapMetrics ==
    /\ riskIn.protocol = "biswap"
    /\ riskOut.kind = "protocol_metrics"
    /\ riskOut' = ScoreWaiting("creation_block",
                               riskOut.factors @@ FactorsNow(riskIn, {"protocol"}))
    /\ UNCHANGED riskIn
    /\ RiskOnly

\* _get_biswap_pool_info, lines 663-685: the creation block has arrived, its
\* number is given to calculate_age_risk, the composite is computed and the
\* record is returned.
ResumeBiswapPool ==
    /\ riskIn.protocol = "biswap"
    /\ riskOut.kind = "creation_block"
    /\ riskOut' = Scored("biswap",
                         riskOut.factors @@ FactorsNow(riskIn, {"age"}))
    /\ UNCHANGED riskIn
    /\ RiskOnly

\* While the biswap coroutine is suspended with the creation block still to
\* read, the data fetcher comes to answer with another block.
CreationBlockChanges ==
    /\ riskIn.protocol = "biswap"
    /\ riskOut.kind \in {"protocol_metrics", "creation_block"}
    /\ riskIn.changes < MaxBlockChanges
    /\ \E b \in CreationBlocks \ {riskIn.age} :
         riskIn' = [riskIn EXCEPT !.age = b, !.changes = @ + 1]
    /\ UNCHANGED riskOut
    /\ RiskOnly

InitScore == ScanIdle /\ AgentIdle /\ PriceIdle /\ RateIdle /\ ScoreInit

NextScore ==
    \/ ScorePancakePool
    \/ ResumePancakePool
    \/ ScoreVenusMarket
    \/ ScoreAlpacaPool
    \/ ScoreBiswapPool
    \/ ResumeBiswapMetrics
    \/ ResumeBiswapPool
    \/ CreationBlockChanges

SpecScore == InitScore /\ [][NextScore]_vars

(***************************************************************************)
(* Formulas over SpecScore                                                 *)
(***************************************************************************)
ScoreInRange(x) == 0 <= x /\ x <= Unit

(***************************************************************************)
(* C16.  In every protocol scan each of the five risk factors passed to    *)
(* calculate_composite_risk_score (TVL risk, volatility risk, age risk,    *)
(* impermanent-loss risk, protocol factor) is in [0,1].                    *)
(***************************************************************************)
C16_FactorsInUnitRange ==
    CompositeCalled =>
        \A n \in FactorNames : ScoreInRange(riskOut.factors[n])

(***************************************************************************)
(* C17.  Every risk score of a record that a protocol scan produces        *)
(* (risk_score of farms and vaults, supply_risk_score and                  *)
(* borrow_risk_score of lending markets) is in [0,1].                      *)
(***************************************************************************)
C17_RecordScoresInUnitRange ==
    riskOut.kind = "record" =>
        /\ riskOut.scores # {}
        /\ \A s \in riskOut.scores : ScoreInRange(s[2])

\* A biswap pool whose weighted sum was above 1 (the TVL of the protocol had
\* halved): the record carries the score 1.0
C17_Witness ==
    /\ riskOut.kind = "record"
    /\ riskIn.protocol = "biswap"
    /\ riskOut.factors.protocol = Hundredths(-5000)
    /\ riskOut.scores = { <<"risk_score", Unit>> }

(***************************************************************************)
(* Further formulas over Spec                                              *)
(***************************************************************************)
\* The pool coroutines that gather has started and that have not returned
InFlight == { pid \in DOMAIN tasks : tasks[pid].ret = NotReturned }

\* What _scan_<proto> gives its caller: its last line is
\* "return opportunities", after the try block and after the except branch
ScanOutcome == IF scanPc = "done" THEN Returned(opportunities) ELSE Pending

(***************************************************************************)
(* C18.  During a scan the pool-detail tasks in flight at the same time    *)
(* stay within a limit that does not grow with the number of pools the     *)
(* protocol enumerates: some limit below the largest number of pools       *)
(* (MaxPools) bounds them in every state.                                  *)
(***************************************************************************)
C18_TasksInFlightAreLimited ==
    \E limit \in 1..(MaxPools - 1) : Cardinality(InFlight) <= limit

(***************************************************************************)
(* C19.  When the RPC endpoint cannot be reached (the enumeration call of  *)
(* the scan raises), the scan ends with an exception for its caller and    *)
(* not with a returned list.                                               *)
(***************************************************************************)
C19_ConnectivityFailureIsRaised ==
    (enumerated = "raise" /\ scanPc = "done") => ScanOutcome.kind = "raised"

(***************************************************************************)
(* Further formulas over SpecPair                                          *)
(***************************************************************************)
\* The chain without any pair
WithoutPairs(c) == [c EXCEPT !.pair = [k \in AllPairs |-> NoPair]]

(***************************************************************************)
(* C20.  A pair lookup whose contract call failed gives its caller another *)
(* outcome than the same lookup gives when no pair exists.                 *)
(***************************************************************************)
C20_NotFoundDiffersFromFailure ==
    (/\ priceCall[1] = "pair"
     /\ GetPair(chain, priceCall[2], priceCall[3]).status = "reverts") =>
        priceRet # GetTokenPriceFromPair(WithoutPairs(chain), priceCall[2], priceCall[3])

(***************************************************************************)
(* SpecCache: YieldScanner.get_token_price and its price_cache             *)
(* (YieldScanner.py 163-219).                                              *)
(*                                                                         *)
(* The method reads self.price_cache, which __init__ never sets: the       *)
(* attribute is missing ("set" is FALSE) unless the caller has assigned a  *)
(* dict to it.  The chain gives for every two tokens what the contracts    *)
(* answer: getPair gives the zero address ("none") or raises ("reverts"),  *)
(* or it gives a pair whose getReserves raises ("unreadable"), or a pair   *)
(* with its reserves and the token0 it reports ("pair").  The factory may  *)
(* hold a pair for WBNB and WBNB.  The method does not scale the reserves  *)
(* by the tokens' decimals.  A behaviour is a few lookups on one chain     *)
(* while the time passes.                                                  *)
(***************************************************************************)
MaxScanReserve == 1
MaxLookups == 2
TickSeconds == 200
MaxNow == 400

\* the depth at which the interpreter raises RecursionError
RecursionLimit == 3

ScannerPairs == AllPairs \cup { {WBNB} }

ScannerNoPair == [status |-> "none", r0 |-> 0, r1 |-> 0, token0 |-> "none"]

ScannerPairStates(k) ==
    { ScannerNoPair,
      [status |-> "reverts", r0 |-> 0, r1 |-> 0, token0 |-> "none"],
      [status |-> "unreadable", r0 |-> 0, r1 |-> 0, token0 |-> "none"] }
    \cup [status : {"pair"}, r0 : 0..MaxScanReserve,
          r1 : 0..MaxScanReserve, token0 : k]

\* the entries of an empty dict
NoEntries == [t \in Tokens |-> NotCalled]

\* what one call of the method gave: the value returned (or the exception
\* raised), the entries of price_cache after it, whether the value came from
\* price_cache, the calls of get_token_price it made for WBNB, one inside
\* the other, and the pairs it asked the factory for
PriceOutcome(kind, v, entries, hit, hops, fetches) ==
    [kind |-> kind, v |-> v, entries |-> entries, hit |-> hit,
     hops |-> hops, fetches |-> fetches]

PriceNotCalled == PriceOutcome("pending", Zero, NoEntries, FALSE, 0, 0)

\* reserves[1] / reserves[0] when the token is the pair's token0, else
\* reserves[0] / reserves[1]; the exception of getReserves, and
\* ZeroDivisionError for a denominator of 0
ReserveRatio(p, token_address) ==
    LET num == IF token_address = p.token0 THEN p.r1 ELSE p.r0
        den == IF token_address = p.token0 THEN p.r0 ELSE p.r1
    IN  IF p.status = "unreadable" \/ den = 0 THEN RaisedError
        ELSE Value(Num(num, den, 0))

\* YieldScanner.get_token_price on a scanner that has a price_cache; depth
\* counts the calls of the method that are on the stack.
RECURSIVE ScannerGetTokenPrice(_, _, _, _)
ScannerGetTokenPrice(c, entries, token_address, depth) ==
    IF entries[token_address].kind = "value"
    THEN PriceOutcome("value", entries[token_address].v, entries, TRUE, 0, 0)
    ELSE IF token_address = BUSD
    THEN PriceOutcome("value", One, entries, FALSE, 0, 0)
    ELSE IF depth >= RecursionLimit
    THEN PriceOutcome("value", Zero, entries, FALSE, 0, 0)
    ELSE
    LET pair_address == c.pair[{token_address, BUSD}]
        wbnb_pair == c.pair[{token_address, WBNB}]
    IN  IF pair_address.status = "reverts"
        THEN PriceOutcome("value", Zero, entries, FALSE, 0, 1)
        ELSE IF pair_address.status # "none"
        THEN LET price == ReserveRatio(pair_address, token_address)
             IN  IF price.kind = "raised"
                 THEN PriceOutcome("value", Zero, entries, FALSE, 0, 1)
                 ELSE PriceOutcome("value", price.v,
                          [entries EXCEPT ![token_address] = Value(price.v)],
                          FALSE, 0, 1)
        ELSE IF wbnb_pair.status = "reverts"
        THEN PriceOutcome("value", Zero, entries, FALSE, 0, 2)
        ELSE IF wbnb_pair.status = "none"
        THEN PriceOutcome("value", Zero, entries, FALSE, 0, 2)
        ELSE LET wbnb == ScannerGetTokenPrice(c, entries, WBNB, depth + 1)
                 wbnb_price == wbnb.v
                 ratio == ReserveRatio(wbnb_pair, token_address)
                 price == Times(ratio.v, wbnb_price)
             IN  IF ratio.kind = "raised"
                 THEN PriceOutcome("value", Zero, wbnb.entries, FALSE,
                                   1 + wbnb.hops, 2 + wbnb.fetches)
                 ELSE PriceOutcome("value", price,
                          [wbnb.entries EXCEPT ![token_address] = Value(price)],
                          FALSE, 1 + wbnb.hops, 2 + wbnb.fetches)

\* YieldScanner.get_token_price: AttributeError, outside the try, when the
\* scanner has no price_cache
YieldScannerGetTokenPrice(c, cache, token_address) ==
    IF ~cache.set
    THEN PriceOutcome("raised", Zero, cache.entries, FALSE, 0, 0)
    ELSE ScannerGetTokenPrice(c, cache.entries, token_address, 0)

CacheOnly == UNCHANGED <<scanVars, agentVars, rateVars, riskVars, priceRev>>

\* WBNB sorts before BUSD, so it is the token0 of their pair; the pair of
\* WBNB with itself, where the factory holds one, has one unit on each side.
CacheInit ==
    /\ chain \in [pair : [ScannerPairs -> UNION { ScannerPairStates(k) :
                                                    k \in ScannerPairs }]]
    /\ \A k \in ScannerPairs : chain.pair[k] \in ScannerPairStates(k)
    /\ chain.pair[{WBNB, BUSD}].token0 \in {WBNB, "none"}
    /\ chain.pair[{WBNB}] \in
           { ScannerNoPair,
             [status |-> "pair", r0 |-> 1, r1 |-> 1, token0 |-> WBNB] }
    /\ price_cache \in [set : BOOLEAN, entries : {NoEntries}]
    /\ now = 0
    /\ storedAt = [t \in Tokens |-> 0]
    /\ priceCall = <<"none", "none", 0>>
    /\ priceRet = PriceNotCalled
    /\ priceRev = NotCalled

\* one call of get_token_price(t) by a user of the scanner
ScannerPriceCall(t) ==
    LET out == YieldScannerGetTokenPrice(chain, price_cache, t)
    IN  /\ priceCall[3] < MaxLookups
        /\ priceCall' = <<"token", t, priceCall[3] + 1>>
        /\ priceRet' = out
        /\ price_cache' = [price_cache EXCEPT !.entries = out.entries]
        /\ storedAt' = [k \in Tokens |->
                          IF out.entries[k] # price_cache.entries[k]
                          THEN now ELSE storedAt[k]]
        /\ UNCHANGED <<chain, now>>
        /\ CacheOnly

\* the time passes
Tick ==
    /\ now < MaxNow
    /\ now' = now + TickSeconds
    /\ UNCHANGED <<chain, priceCall, priceRet, price_cache, storedAt>>
    /\ CacheOnly

InitCache == ScanIdle /\ AgentIdle /\ CacheInit /\ RateIdle /\ RiskIdle

NextCache ==
    \/ \E t \in Tokens : ScannerPriceCall(t)
    \/ Tick

SpecCache == InitCache /\ [][NextCache]_vars

\* the last lookup was get_token_price(t) and it has returned or raised
ScannerCalled(t) == priceCall[1] = "token" /\ priceCall[2] = t

\* C21: a resolved price is cached under the token's address for 300 seconds:
\* a lookup of the token before the entry expires returns the cached price
\* without fetching, a lookup after that fetches again and replaces the
\* entry, so the price a lookup takes from the cache was never written more
\* than 300 seconds before.
C21_ExpiredPriceIsNeverReturned ==
    \A t \in Tokens :
        (ScannerCalled(t) /\ priceRet.hit) =>
            /\ now - storedAt[t] <= 300
            /\ priceRet.fetches = 0

(***************************************************************************)
(* Further formulas over Spec: the keys of the records                     *)
(***************************************************************************)
\* the keys of the dict a pool coroutine of the protocol returns
RecordKeys(p) ==
    CASE p = "pancakeswap" ->
           {"protocol", "type", "pid", "address", "token0_address",
            "token1_address", "token0_price", "token1_price", "tvl", "apr",
            "risk_score", "il_risk", "age_days", "volume_24h", "timestamp"}
      [] p = "venus" ->
           {"protocol", "type", "address", "underlying_address",
            "underlying_price", "tvl", "supply_apy", "borrow_apy",
            "supply_risk_score", "borrow_risk_score", "utilization_rate",
            "total_supply", "total_borrows", "timestamp"}
      [] p = "alpaca" ->
           {"protocol", "type", "pid", "address", "token_address",
            "token_price", "tvl", "base_apy", "reward_apy", "total_apy",
            "risk_score", "timestamp"}
      [] p = "biswap" ->
           {"protocol", "type", "pid", "address", "token0_address",
            "token1_address", "token0_price", "token1_price", "tvl", "apr",
            "risk_score", "il_risk", "timestamp"}

\* the keys YieldStrategy._filter_opportunities reads of a record:
\* opp['expected_roi'], opp['risk_score'], opp['tvl'] and, twice,
\* opp['metrics'] (for protocol_score and liquidity_score)
KeysRead == {"expected_roi", "risk_score", "tvl", "metrics"}

\* the keys under which a record holds a rate
RateKeys ==
    {"apr", "supply_apy", "borrow_apy", "base_apy", "reward_apy", "total_apy"}

(***************************************************************************)
(* C22.  Every record a protocol scan returns carries a protocol, a type,  *)
(* an address, a TVL, a rate, a risk score, an expected ROI and a          *)
(* timestamp, so that the filter and the ranking find the keys they read   *)
(* (expected_roi, risk_score, tvl) in every record.                        *)
(***************************************************************************)
C22_RecordsCarryTheKeysRead ==
    \A i \in 1..Len(opportunities) :
        LET keys == RecordKeys(opportunities[i].protocol)
        IN  /\ {"protocol", "type", "address", "tvl", "risk_score",
                "expected_roi", "timestamp"} \subseteq keys
            /\ keys \cap RateKeys # {}
            /\ KeysRead \subseteq keys

(***************************************************************************)
(* Further formulas over SpecCache                                         *)
(***************************************************************************)
\* C23: on every chain, one where WBNB has a pair with itself included, a
\* lookup ends after the token's own pair and at most one lookup of WBNB
\* inside it: the lookup of WBNB never starts a further lookup of WBNB.
C23_AtMostOneIntermediateLookup ==
    \A t \in Tokens : ScannerCalled(t) => priceRet.hops <= 1

\* the pair get_token_price takes the token's reserves from: the pair with
\* BUSD, or the pair with WBNB where the factory has no pair with BUSD
PricingPair(c, t) ==
    IF c.pair[{t, BUSD}].status = "none"
    THEN c.pair[{t, WBNB}] ELSE c.pair[{t, BUSD}]

HasZeroReserve(p) == p.status = "pair" /\ (p.r0 = 0 \/ p.r1 = 0)

\* C24: a price is taken from a pair only when both its reserves are not 0:
\* for a token whose pair has a zero reserve on either side, no lookup
\* returns a ratio of the reserves as the price from the pair and none is
\* written to the cache.
C24_ZeroReserveGivesNoPrice ==
    \A t \in Tokens \ {BUSD} :
        HasZeroReserve(PricingPair(chain, t)) =>
            /\ price_cache.entries[t].kind # "value"
            /\ ScannerCalled(t) => priceRet.entries[t].kind # "value"

\* a lookup of WBNB on the chain, made from inside a lookup, returns 0
WbnbLookupReturnsZero(c) ==
    IsZero(ScannerGetTokenPrice(c, NoEntries, WBNB, 1).v)

\* C30: whatever lookups were made, every entry of the cache is a price from
\* a lookup all of whose legs gave a price: a lookup that returns 0 (it
\* failed or found no path) writes nothing, so no entry is 0, and a token
\* priced through WBNB has no entry when the lookup of WBNB returns 0.
C30_CacheHoldsOnlyResolvedPrices ==
    /\ price_cache.set =>
         \A t \in Tokens :
           price_cache.entries[t].kind = "value" =>
               ~IsZero(price_cache.entries[t].v)
    /\ (/\ chain.pair[{"TOKEN", BUSD}].status = "none"
        /\ WbnbLookupReturnsZero(chain)) =>
           price_cache.entries["TOKEN"].kind # "value"

(***************************************************************************)
(* Further formulas over SpecComposite                                     *)
(***************************************************************************)
\* 100 times 0.25 tvl + 0.20 volatility + 0.15 age + 0.20 il
\* + 0.20 (1 - protocol), in ten-thousandths
HundredTimesComposite(in) ==
    25 * in.tvl_score + 20 * in.volatility_score + 15 * in.age_score
    + 20 * in.il_risk + 20 * (Unit - in.protocol_score)

\* the score calculate_composite_risk_score gives for the inputs
CompositeFor(in) ==
    CalculateCompositeRiskScore(in.weights, in.tvl_score, in.volatility_score,
                                in.age_score, in.il_risk, in.protocol_score).v

\* the inputs with one risk factor raised, or with the protocol score lowered
RiskierInputs(in) ==
    { [in EXCEPT !.tvl_score = s] : s \in { g \in GridScores : g >= in.tvl_score } }
    \cup { [in EXCEPT !.volatility_score = s] :
              s \in { g \in GridScores : g >= in.volatility_score } }
    \cup { [in EXCEPT !.age_score = s] : s \in { g \in GridScores : g >= in.age_score } }
    \cup { [in EXCEPT !.il_risk = s] : s \in { g \in GridScores : g >= in.il_risk } }
    \cup { [in EXCEPT !.protocol_score = s] :
              s \in { g \in ProtocolArguments : g <= in.protocol_score } }

(***************************************************************************)
(* C25.  With the default weights the composite is, before the clamp,      *)
(*   0.25 tvl + 0.20 volatility + 0.15 age + 0.20 il + 0.20 (1 - protocol) *)
(* the weights sum to 1, and the composite does not fall when a risk       *)
(* factor rises and does not rise when the protocol score rises.           *)
(***************************************************************************)
C25_CompositeIsTheWeightedSum ==
    (riskOut # ScoreNotCalled /\ riskIn.weights = RISK_WEIGHTS) =>
        /\ RISK_WEIGHTS.tvl + RISK_WEIGHTS.volatility + RISK_WEIGHTS.age
             + RISK_WEIGHTS.il + RISK_WEIGHTS.protocol = Unit
        /\ riskOut.kind = "value"
        /\ 100 * riskOut.v
             = Min(100 * Unit, Max(0, HundredTimesComposite(riskIn)))
        /\ \A other \in RiskierInputs(riskIn) : riskOut.v <= CompositeFor(other)

\* tvl 0.5, volatility 1, age 0, il 0.5 and a protocol score of 0.5 gave
\* 0.125 + 0.2 + 0 + 0.1 + 0.1 = 0.525
C25_Witness ==
    /\ riskIn.weights = RISK_WEIGHTS
    /\ riskIn.tvl_score = Hundredths(50) /\ riskIn.volatility_score = Unit
    /\ riskIn.age_score = 0 /\ riskIn.il_risk = Hundredths(50)
    /\ riskIn.protocol_score = Hundredths(50)
    /\ riskOut = ScoreValue(5250)

(***************************************************************************)
(* SpecHealth: RiskCalculator.calculate_protocol_health_score on drawn     *)
(* arguments (risk_calculator.py 128-161).  Scores are in ten-thousandths, *)
(* rounded down where the quotient is not a whole number of them.          *)
(***************************************************************************)
MaxUsers == 2
MaxAudit == 2

\* self.PROTOCOL_BASE_SCORES.get(protocol.lower(), 0.5)
ProtocolBaseScore(protocol) ==
    CASE protocol = "pancakeswap" -> Hundredths(90)
      [] protocol = "venus" -> Hundredths(85)
      [] protocol = "alpaca" -> Hundredths(80)
      [] protocol = "biswap" -> Hundredths(75)
      [] OTHER -> Hundredths(50)

\* TVL histories: empty, one entry, rising, falling, and one that starts at 0
TvlHistories == { <<>>, <<1>>, <<0, 1>>, <<1, 2>>, <<2, 1>>, <<4, 5>>, <<4, 0, 5>> }

\* user counts and days since the audit, below 0 and above the ceiling too
UserCounts == { 50000 * k : k \in (0 - MaxUsers)..(2 * MaxUsers) }
AuditDays == { 73 * k : k \in (0 - MaxAudit)..(5 * MaxAudit) }

HealthInputs ==
    [ protocol : Protocols \cup {"unknown"}, tvl_history : TvlHistories,
      user_count : UserCounts, days_since_audit : AuditDays ]

\* tvl_growth = (tvl_history[-1] / tvl_history[0] - 1) if len > 1 else 0
\* tvl_growth_score = min(1.0, max(0.0, (tvl_growth + 0.5) / 1.5))
\* that is (2 last - first) / (3 first), or 1/3 for a growth of 0
TvlGrowthScore(tvl_history) ==
    LET first == tvl_history[1]
        last == tvl_history[Len(tvl_history)]
    IN  IF Len(tvl_history) > 1
        THEN Min(Unit, Max(0, (Unit * (2 * last - first)) \div (3 * first)))
        ELSE Unit \div 3

\* user_score = min(1.0, user_count / 100000)
UserScore(user_count) == Min(Unit, (Unit * user_count) \div 100000)

\* audit_score = max(0.0, min(1.0, days_since_audit / 365))
AuditScore(days_since_audit) ==
    Max(0, Min(Unit, (Unit * days_since_audit) \div 365))

\* RiskCalculator.calculate_protocol_health_score; the division by a first
\* entry of 0 raises, and the except branch raises again
CalculateProtocolHealthScore(protocol, tvl_history, user_count, days_since_audit) ==
    IF Len(tvl_history) > 1 /\ tvl_history[1] = 0 THEN ScoreRaised
    ELSE ScoreValue(RiskMul(ProtocolBaseScore(protocol), Hundredths(40))
                    + RiskMul(TvlGrowthScore(tvl_history), Hundredths(20))
                    + RiskMul(UserScore(user_count), Hundredths(20))
                    + RiskMul(AuditScore(days_since_audit), Hundredths(20)))

HealthInit ==
    /\ riskIn \in HealthInputs
    /\ riskOut = ScoreNotCalled

CallProtocolHealth ==
    /\ riskOut = ScoreNotCalled
    /\ riskOut' = CalculateProtocolHealthScore(riskIn.protocol,
                      riskIn.tvl_history, riskIn.user_count,
                      riskIn.days_since_audit)
    /\ UNCHANGED riskIn
    /\ RiskOnly

InitHealth == ScanIdle /\ AgentIdle /\ PriceIdle /\ RateIdle /\ HealthInit

NextHealth == CallProtocolHealth

SpecHealth == InitHealth /\ [][NextHealth]_vars

(***************************************************************************)
(* C26.  calculate_protocol_health_score returns                           *)
(*   0.4 base + 0.2 tvlGrowth + 0.2 userAdoption + 0.2 auditFreshness      *)
(* with each of the three sub-scores clamped to [0,1], for every TVL       *)
(* history, user count and number of days since the audit, so the score is *)
(* in [0,1]; a protocol that is not in the base table has the base 0.5.    *)
(***************************************************************************)
C26_HealthScoreInUnitRange ==
    riskOut # ScoreNotCalled =>
        /\ riskOut.kind = "value"
        /\ 0 <= riskOut.v /\ riskOut.v <= Unit
        /\ riskOut.v
             >= RiskMul(ProtocolBaseScore(riskIn.protocol), Hundredths(40))
        /\ riskIn.protocol = "unknown" =>
             ProtocolBaseScore(riskIn.protocol) = Hundredths(50)

(***************************************************************************)
(* SpecDrawdown: RiskCalculator._calculate_max_drawdown on drawn series of *)
(* positive values (risk_calculator.py 188-199).  A drawdown is the exact  *)
(* fraction [n, d] in lowest terms.                                        *)
(***************************************************************************)
MaxValue == 3
MaxSeries == 4

Frac(n, d) ==
    IF n = 0 THEN [n |-> 0, d |-> 1]
    ELSE LET g == GCD(IF n < 0 THEN 0 - n ELSE n, d)
         IN  [n |-> n \div g, d |-> d \div g]

FracLessEq(x, y) == x.n * y.d <= y.n * x.d

\* max(a, b) of two fractions: the first unless the second is greater
FracMax(a, b) == IF FracLessEq(b, a) THEN a ELSE b

DrawdownNotCalled == [kind |-> "pending", v |-> Frac(0, 1)]
DrawdownValue(x) == [kind |-> "value", v |-> x]

\* the loop of _calculate_max_drawdown from the i-th value on:
\*   if value > peak: peak = value
\*   drawdown = (peak - value) / peak
\*   max_drawdown = max(max_drawdown, drawdown)
RECURSIVE DrawdownLoop(_, _, _, _)
DrawdownLoop(values, i, peak, max_drawdown) ==
    IF i > Len(values) THEN max_drawdown
    ELSE LET value == values[i]
             newPeak == IF value > peak THEN value ELSE peak
             drawdown == Frac(newPeak - value, newPeak)
         IN  DrawdownLoop(values, i + 1, newPeak,
                          FracMax(max_drawdown, drawdown))

\* the loop with the peak left at the first value
RECURSIVE DrawdownLoopFirstPeak(_, _, _, _)
DrawdownLoopFirstPeak(values, i, peak, max_drawdown) ==
    IF i > Len(values) THEN max_drawdown
    ELSE LET value == values[i]
             drawdown == Frac(peak - value, peak)
         IN  DrawdownLoopFirstPeak(values, i + 1, peak,
                                   FracMax(max_drawdown, drawdown))

\* _calculate_max_drawdown with the peak never raised
CalculateMaxDrawdownFirstPeak(values) ==
    DrawdownValue(DrawdownLoopFirstPeak(values, 1, values[1], Frac(0, 1)))

\* RiskCalculator._calculate_max_drawdown: peak = values[0],
\* max_drawdown = 0.0, then the loop over all the values
CalculateMaxDrawdown(values) ==
    DrawdownValue(DrawdownLoop(values, 1, values[1], Frac(0, 1)))

DrawdownInputs ==
    UNION { [1..n -> 1..MaxValue] : n \in 1..MaxSeries }

DrawdownInit ==
    /\ riskIn \in DrawdownInputs
    /\ riskOut = DrawdownNotCalled

CallMaxDrawdown ==
    /\ riskOut = DrawdownNotCalled
    /\ riskOut' = CalculateMaxDrawdown(riskIn)
    /\ UNCHANGED riskIn
    /\ RiskOnly

InitDrawdown == ScanIdle /\ AgentIdle /\ PriceIdle /\ RateIdle /\ DrawdownInit

NextDrawdown == CallMaxDrawdown

SpecDrawdown == InitDrawdown /\ [][NextDrawdown]_vars

\* the declines (v_i - v_j) / v_i from an earlier value to a later one
Declines(values) ==
    { Frac(values[p[1]] - values[p[2]], values[p[1]]) :
        p \in { q \in (1..Len(values)) \X (1..Len(values)) : q[1] <= q[2] } }

NonDecreasing(values) ==
    \A i \in 1..(Len(values) - 1) : values[i] <= values[i + 1]

(***************************************************************************)
(* C27.  For every non-empty series of positive values                     *)
(* _calculate_max_drawdown returns the largest (v_i - v_j) / v_i over      *)
(* i <= j: 0 for a series that never falls, and always at least 0 and      *)
(* below 1.                                                                *)
(***************************************************************************)
C27_MaxDrawdownIsLargestDecline ==
    riskOut # DrawdownNotCalled =>
        LET declines == Declines(riskIn)
        IN  /\ riskOut.kind = "value"
            /\ riskOut.v \in declines
            /\ \A x \in declines : FracLessEq(x, riskOut.v)
            /\ NonDecreasing(riskIn) => riskOut.v = Frac(0, 1)
            /\ 0 <= riskOut.v.n /\ riskOut.v.n < riskOut.v.d

\* 2, 1, 3, 1: the largest decline, from the later peak 3 to 1, is 2/3
C27_Witness ==
    /\ riskIn = <<2, 1, 3, 1>>
    /\ riskOut = DrawdownValue(Frac(2, 3))

(***************************************************************************)
(* Further formulas over Spec: pools whose calls all returned              *)
(***************************************************************************)
\* an external call of pool pid's coroutine failed
ExternalCallFailed(pid) == tasks[pid].raised /\ tasks[pid].external

(***************************************************************************)
(* C28.  In each of the four scans, when the enumeration succeeded, a pool *)
(* for which every external call returned a well-formed value has run      *)
(* through all the steps of its coroutine, and the list the scan returns   *)
(* holds the record of that pool.                                          *)
(***************************************************************************)
C28_WellFormedCallsGiveARecord ==
    (scanPc = "done" /\ enumerated = "ok") =>
        \A pid \in DOMAIN tasks :
            ~ExternalCallFailed(pid) =>
                /\ ~tasks[pid].raised
                /\ tasks[pid].step = Len(Steps(proto))
                /\ Count(PoolRecord(proto, pid), opportunities) = 1

(***************************************************************************)
(* Further formulas over SpecScore: the age factor                         *)
(***************************************************************************)
\* the age factor the coroutine of in.protocol computes when the number it
\* has for the pool's age is a
AgeFactorAt(in, a) == RiskFactors([in EXCEPT !.age = a]).age

(***************************************************************************)
(* C29.  In every scan the age factor is the age step function applied to  *)
(* the pool's age in days, never to a block number.  For pancakeswap the   *)
(* coroutine has the age in days.  The other three have the creation       *)
(* block: a pool created at a later block is younger, so with the age in   *)
(* days its age factor is at least that of a pool created earlier.         *)
(***************************************************************************)
C29_AgeFactorIsOfAgeInDays ==
    CompositeCalled =>
        IF riskIn.protocol = "pancakeswap"
        THEN riskOut.factors.age = AgeRiskTable(riskIn.age)
        ELSE \A created_later \in CreationBlocks :
                 created_later >= riskIn.age =>
                     AgeFactorAt(riskIn, created_later) >= riskOut.factors.age

====
